---- MODULE Spec2Model ----
(***************************************************************************)
(* Model of the scoring and ranking engine of the financial analyst agent  *)
(* (src/financial_analyzer.py).                                            *)
(*                                                                         *)
(* Numbers.  Python floats are written as decimals and computed as IEEE    *)
(* doubles:                                                                *)
(*   - a percentage (revenue growth, EBIT margin, price-vs-MA deviation)   *)
(*     written v is the double nearest to v/100, which is what round(x, 2) *)
(*     returns; an EBIT margin that is not such a double is written as the *)
(*     double itself, <<sign, mantissa, exponent>>;                        *)
(*   - revenues are integer currency amounts;                              *)
(*   - a price or moving average on input written v is the double nearest  *)
(*     to v/1000, so that round(ma, 2) is a real rounding step.            *)
(* The arithmetic between these numbers is the arithmetic of doubles.      *)
(* An optional value (None, NaN) is the empty tuple, a present value v is  *)
(* the tuple <<v>>.  A float division by zero, which numpy answers with    *)
(* inf or nan instead of raising, is the pair <<sign, 0>>.                 *)
(***************************************************************************)
EXTENDS Integers, Sequences, FiniteSets, TLC

VARIABLES
    pc,                 \* position of the caller: "call" before, "done" after;
                        \* in a script run of the application: the place
                        \* where it stands, "idle" when none is running
    fundamental_data,   \* list of quarterly records of one ticker
    technical_data,     \* price rows of one ticker, oldest first
    current_price,      \* optional current price
    revenue_growth,     \* result of calculate_revenue_growth
    ebit_analysis,      \* result of analyze_ebit_margin_trend
    technical_analysis, \* result of analyze_technical_indicators
    ranking_score,      \* result of calculate_ranking_score
    analysis,           \* result of analyze_stock
    analysis_results,   \* batch handed to rank_stocks
    ranked_stocks,      \* result of rank_stocks
    symbols_input,      \* text submitted with the Analyze button
    symbols,            \* validated symbol list given to run_analysis
    idx,                \* run_analysis: the loop variable i, counted from 1
    collected_data,     \* run_analysis: symbol -> collected data
    db,                 \* tables of the SQLite file
    session_state,      \* st.session_state
    now,                \* clock behind CURRENT_TIMESTAMP: number of runs whose
                        \* clear_database has returned
    analysis_summary,   \* text handed to the language model
    page,               \* main content area as the last script run left it
    quarterly_financials \* statement columns the provider gave the collector

\* The state of the application around run_analysis.
RunVars == <<symbols_input, symbols, idx, collected_data, db, session_state,
             now, analysis_summary, page, quarterly_financials>>

vars == <<pc, fundamental_data, technical_data, current_price, revenue_growth,
          ebit_analysis, technical_analysis, ranking_score, analysis,
          analysis_results, ranked_stocks, RunVars>>

----------------------------------------------------------------------------
(* Optional values and decimal notation                                    *)

None == <<>>
Some(v) == <<v>>
IsNone(o) == o = <<>>
NotNone(o) == o # <<>>
Val(o) == o[1]

\* round(x, 2) keeps two decimals: a percentage is written in 1/Scale.
Scale == 100
\* Input prices are written in thousandths.
Mills == 10 * Scale

Abs(n) == IF n < 0 THEN -n ELSE n

\* The rational n / d rounded to the nearest integer, ties to the even
\* neighbour (d # 0): exact arithmetic, for the statements about results.
RoundDiv(n, d) ==
    LET nn == IF d < 0 THEN -n ELSE n
        dd == Abs(d)
        q == nn \div dd
        r == nn % dd
    IN  IF 2 * r < dd THEN q
        ELSE IF 2 * r > dd THEN q + 1
        ELSE IF q % 2 = 0 THEN q ELSE q + 1

RECURSIVE SumSeq(_)
SumSeq(s) == IF s = <<>> THEN 0 ELSE s[1] + SumSeq(Tail(s))

SetMin(S) == CHOOSE x \in S : \A y \in S : x <= y

\* Python's tuple comparison a > b for two tuples of the same length.
LexGT(a, b) ==
    \E i \in 1..Len(a) :
        /\ a[i] > b[i]
        /\ \A j \in 1..(i - 1) : a[j] = b[j]

----------------------------------------------------------------------------
(* IEEE 754 doubles                                                        *)
(*                                                                         *)
(* Python's float and numpy's float64 are binary64.  A finite double is    *)
(* <<sign, m, e>> with the value sign * m * 2^e: sign is 1 or -1 and m is  *)
(* a natural number of exactly 53 bits (the doubles of the model are       *)
(* normal), or sign 0 for zero.  Naturals beyond 31 bits are sequences of  *)
(* limbs of 15 bits, least significant first, without leading zeros.       *)
(* Every operation is the exact result rounded to the nearest double, ties *)
(* to the even mantissa, as the hardware does.                             *)

Radix == 2^15

RECURSIVE BigNorm(_)
BigNorm(a) ==
    IF a # <<>> /\ a[Len(a)] = 0 THEN BigNorm(SubSeq(a, 1, Len(a) - 1)) ELSE a

RECURSIVE BigOf(_)
BigOf(n) == IF n = 0 THEN <<>> ELSE <<n % Radix>> \o BigOf(n \div Radix)

RECURSIVE BigToInt(_)
BigToInt(a) == IF a = <<>> THEN 0 ELSE a[1] + Radix * BigToInt(Tail(a))

Limb(a, k) == IF k <= Len(a) THEN a[k] ELSE 0

RECURSIVE BigCmpFrom(_, _, _)
BigCmpFrom(a, b, k) ==
    IF k = 0 THEN 0
    ELSE IF a[k] > b[k] THEN 1
    ELSE IF a[k] < b[k] THEN -1
    ELSE BigCmpFrom(a, b, k - 1)

\* 1, 0 or -1 as a is above, equal to or below b.
BigCmp(a, b) ==
    IF Len(a) > Len(b) THEN 1
    ELSE IF Len(a) < Len(b) THEN -1
    ELSE BigCmpFrom(a, b, Len(a))

RECURSIVE BigAddFrom(_, _, _, _)
BigAddFrom(a, b, k, carry) ==
    IF k > Len(a) /\ k > Len(b)
    THEN IF carry = 0 THEN <<>> ELSE <<carry>>
    ELSE LET s == Limb(a, k) + Limb(b, k) + carry
         IN  <<s % Radix>> \o BigAddFrom(a, b, k + 1, s \div Radix)

BigAdd(a, b) == BigAddFrom(a, b, 1, 0)

RECURSIVE BigSubFrom(_, _, _, _)
BigSubFrom(a, b, k, borrow) ==
    IF k > Len(a) THEN <<>>
    ELSE LET s == a[k] - Limb(b, k) - borrow
         IN  <<s % Radix>> \o BigSubFrom(a, b, k + 1, IF s < 0 THEN 1 ELSE 0)

\* a - b for a >= b.
BigSub(a, b) == BigNorm(BigSubFrom(a, b, 1, 0))

RECURSIVE BigMulSmallFrom(_, _, _, _)
BigMulSmallFrom(a, f, k, carry) ==
    IF k > Len(a)
    THEN IF carry = 0 THEN <<>> ELSE <<carry>>
    ELSE LET s == a[k] * f + carry
         IN  <<s % Radix>> \o BigMulSmallFrom(a, f, k + 1, s \div Radix)

\* a * f for 0 <= f < Radix.
BigMulSmall(a, f) == BigNorm(BigMulSmallFrom(a, f, 1, 0))

RECURSIVE BigMul(_, _)
BigMul(a, b) ==
    IF a = <<>> \/ b = <<>> THEN <<>>
    ELSE BigNorm(BigAdd(BigMulSmall(a, b[1]), <<0>> \o BigMul(a, Tail(b))))

\* a * 2^k.
BigShl(a, k) ==
    IF a = <<>> THEN <<>>
    ELSE BigMulSmall([j \in 1..(k \div 15) |-> 0] \o a, 2^(k % 15))

RECURSIVE IntBitLen(_)
IntBitLen(n) == IF n = 0 THEN 0 ELSE 1 + IntBitLen(n \div 2)

BigBitLen(a) ==
    IF a = <<>> THEN 0 ELSE 15 * (Len(a) - 1) + IntBitLen(a[Len(a)])

\* The largest q with q * d <= r, for r < d * Radix and a divisor whose top
\* limb has its top bit set: the estimate from the leading limbs is at most
\* two too large.
RECURSIVE BigDigitFrom(_, _, _)
BigDigitFrom(r, d, q) ==
    IF BigCmp(BigMulSmall(d, q), r) > 0 THEN BigDigitFrom(r, d, q - 1) ELSE q

BigDigit(r, d) ==
    IF Len(r) < Len(d) THEN 0
    ELSE LET top == Limb(r, Len(d) + 1) * Radix + r[Len(d)]
             est == top \div d[Len(d)]
         IN  BigDigitFrom(r, d, IF est > Radix - 1 THEN Radix - 1 ELSE est)

\* Long division of the limbs a[1..k] by d, most significant limb first:
\* <<quotient, remainder>>.
RECURSIVE BigDivFrom(_, _, _)
BigDivFrom(a, d, k) ==
    IF k > Len(a) THEN << <<>>, <<>> >>
    ELSE LET above == BigDivFrom(a, d, k + 1)
             r == BigNorm(<<a[k]>> \o above[2])
             q == BigDigit(r, d)
         IN  << <<q>> \o above[1], BigSub(r, BigMulSmall(d, q)) >>

BigDivResult(qr, dd) == <<BigNorm(qr[1]), qr[2], dd>>

BigDivScaled(aa, dd) == BigDivResult(BigDivFrom(aa, dd, 1), dd)

\* <<q, r, dd>> with q the quotient of a by d # 0 and r the remainder on
\* the scale of dd: a and d are first multiplied by the power of two that
\* sets the top bit of the divisor's top limb.
BigDivMod(a, d) ==
    BigDivScaled(BigShl(a, 15 - IntBitLen(d[Len(d)])),
                 BigShl(d, 15 - IntBitLen(d[Len(d)])))

\* a \div 2^k for 0 <= k < 15.
BigShr(a, k) ==
    BigNorm([j \in 1..Len(a) |->
                (a[j] \div 2^k) + (Limb(a, j + 1) % 2^k) * 2^(15 - k)])

FZero == <<0, <<>>, 0>>

\* The double of a significand of 53 or 54 bits.
FNormal(sign, m, e) ==
    IF BigBitLen(m) = 54 THEN <<sign, BigShr(m, 1), e + 1>> ELSE <<sign, m, e>>

\* The quotient q of 55 or 56 bits, rounded to 53 bits, ties to even;
\* sticky tells that the division left a remainder.
FRoundBits(sign, q, sticky, extra, e) ==
    LET low == q[1] % 2^extra
        half == 2^(extra - 1)
        odd == (q[1] \div 2^extra) % 2 = 1
    IN  FNormal(sign,
                IF low > half \/ (low = half /\ (sticky \/ odd))
                THEN BigAdd(BigShr(q, extra), <<1>>)
                ELSE BigShr(q, extra),
                e + extra)

FRoundQuotient(sign, qr, e) ==
    FRoundBits(sign, qr[1], qr[2] # <<>>, BigBitLen(qr[1]) - 53, e)

FRoundAt(sign, n, d, e, sh) ==
    FRoundQuotient(sign,
                   BigDivMod(BigShl(n, IF sh > 0 THEN sh ELSE 0),
                             BigShl(d, IF sh < 0 THEN -sh ELSE 0)),
                   e - sh)

\* The double nearest to sign * (n / d) * 2^e, ties to even.
FRound(sign, n, d, e) ==
    IF n = <<>> THEN FZero
    ELSE FRoundAt(sign, n, d, e, 55 - (BigBitLen(n) - BigBitLen(d)))

Sign(n) == IF n > 0 THEN 1 ELSE IF n < 0 THEN -1 ELSE 0

\* float(n) / float(d) for integers n and d # 0 below 2^31, and the float
\* that a decimal literal n/d denotes.
FOfRatio(n, d) ==
    FRound(Sign(n) * Sign(d),
           BigOf(IF n < 0 THEN -n ELSE n), BigOf(IF d < 0 THEN -d ELSE d), 0)

FOfInt(n) == FOfRatio(n, 1)

\* x * y.
FMul(x, y) == FRound(x[1] * y[1], BigMul(x[2], y[2]), <<1>>, x[3] + y[3])

\* x / y for y # 0.
FDiv(x, y) == FRound(x[1] * y[1], x[2], y[2], x[3] - y[3])

FNeg(x) == <<-x[1], x[2], x[3]>>

\* sx * a * 2^e + sy * b * 2^e; c compares a with b.
FAddAligned(sx, a, sy, b, e, c) ==
    FRound(IF sx = sy \/ c > 0 THEN sx ELSE IF c = 0 THEN 0 ELSE sy,
           IF sx = sy THEN BigAdd(a, b)
           ELSE IF c >= 0 THEN BigSub(a, b)
           ELSE BigSub(b, a),
           <<1>>, e)

FAddAt(x, y, e) ==
    FAddAligned(x[1], BigShl(x[2], x[3] - e), y[1], BigShl(y[2], y[3] - e), e,
                BigCmp(BigShl(x[2], x[3] - e), BigShl(y[2], y[3] - e)))

\* x + y.
FAdd(x, y) ==
    IF x[1] = 0 THEN y
    ELSE IF y[1] = 0 THEN x
    ELSE FAddAt(x, y, IF x[3] < y[3] THEN x[3] ELSE y[3])

\* x - y.
FSub(x, y) == FAdd(x, FNeg(y))

\* q, or q + 1 when the remainder is above half (c > 0) or is half and
\* q is odd.
RoundUpIf(sign, q, c) ==
    sign * (IF c > 0 \/ (c = 0 /\ q % 2 = 1) THEN q + 1 ELSE q)

RoundHalfEven(sign, qr) ==
    RoundUpIf(sign, BigToInt(qr[1]), BigCmp(BigShl(qr[2], 1), qr[3]))

\* The integer nearest to sign * n * 2^e, ties to the even integer.
RoundExact(sign, n, e) ==
    IF sign = 0 \/ n = <<>> THEN 0
    ELSE IF e >= 0 THEN sign * BigToInt(BigShl(n, e))
    ELSE RoundHalfEven(sign, BigDivMod(n, BigShl(<<1>>, -e)))

\* numpy.rint(x) as an integer.
FRint(x) == RoundExact(x[1], x[2], x[3])

\* The count of 1/10^digits nearest to x itself, ties to even: what
\* Python's round(x, digits) and its format '.<digits>f' keep of a float.
FDecimals(x, digits) == RoundExact(x[1], BigMulSmall(x[2], 10^digits), x[3])

\* numpy's round(x, 2) of a float64: rint(x * 100) / 100, as the count of
\* hundredths.
\* The double 100.0: 200 * 2^45 * 2^-46.
Hundred == <<1, <<0, 0, 0, 200>>, -46>>

FNumpyRound2(x) == FRint(FMul(x, Hundred))

\* The rational n / d lies exactly halfway between two integers.
IsTie(n, d) == 2 * (n % Abs(d)) = Abs(d)

\* Largest factor that times 100 * Scale stays an integer of the model.
MaxExact == 2^17

\* The rational n / d is a double: its reduced denominator is a power of 2.
RECURSIVE IsDyadic(_, _)
IsDyadic(n, d) ==
    IF n % d = 0 THEN TRUE
    ELSE IF d % 2 = 0 THEN IsDyadic(n, d \div 2)
    ELSE FALSE

\* n / d * 100 in floats, for integers n and d # 0.
float_percent(n, d) == FMul(FOfRatio(n, d), Hundred)

\* The double that a present percentage stands for.
percent_float(o) == IF Len(o) = 1 THEN FOfRatio(Val(o), Scale) ELSE o

\* A double as a percentage: written in hundredths when it is the double
\* of such a decimal, else the double itself.
written_percent(x, v) == IF FOfRatio(v, Scale) = x THEN Some(v) ELSE x

as_percent(x) == written_percent(x, FDecimals(x, 2))

----------------------------------------------------------------------------
(* sorted(items, key=..., reverse=True)                                    *)

\* The order in which the first n items come out: item n is placed before
\* the first item whose key is strictly smaller, so items with equal keys
\* keep their input order (Python's sort is stable, also with reverse=True).
RECURSIVE sorted_order_unstable(_, _)
sorted_order_unstable(keys, n) ==
    IF n = 0 THEN <<>>
    ELSE LET prev == sorted_order_unstable(keys, n - 1)
             notgreater == {p \in 1..Len(prev) : ~LexGT(keys[prev[p]], keys[n])}
             pos == IF notgreater = {} THEN Len(prev) + 1 ELSE SetMin(notgreater)
         IN  SubSeq(prev, 1, pos - 1) \o <<n>> \o SubSeq(prev, pos, Len(prev))

RECURSIVE sorted_order(_, _)
sorted_order(keys, n) ==
    IF n = 0 THEN <<>>
    ELSE LET prev == sorted_order(keys, n - 1)
             smaller == {p \in 1..Len(prev) : LexGT(keys[n], keys[prev[p]])}
             pos == IF smaller = {} THEN Len(prev) + 1 ELSE SetMin(smaller)
         IN  SubSeq(prev, 1, pos - 1) \o <<n>> \o SubSeq(prev, pos, Len(prev))

\* items sorted by keys (keys[i] is the key tuple of items[i]), largest first.
sorted_reverse(items, keys) ==
    LET order == sorted_order(keys, Len(items))
    IN  [p \in 1..Len(items) |-> items[order[p]]]

----------------------------------------------------------------------------
(* FinancialAnalyzer.calculate_revenue_growth                              *)

present_revenues(data) ==
    LET kept == SelectSeq(data, LAMBDA d : d.revenue # None)
    IN  [i \in 1..Len(kept) |-> Val(kept[i].revenue)]

\* round(((current - previous) / previous) * 100, 2), lines 36-37: the
\* revenues are floats of integer value, the difference is exact, and
\* Python's round keeps the hundredth nearest to the float itself.  The
\* float is within 2^-51 of the rational in relative terms, and a rational
\* with denominator d that is not halfway between two hundredths is at
\* least 1/(2d) away from halfway: only for a rational exactly halfway do
\* the float operations decide the result.
qoq_growth(current_quarter, previous_quarter) ==
    LET difference == current_quarter - previous_quarter
    IN  IF /\ Abs(difference) < MaxExact
           /\ ~IsTie(difference * 100 * Scale, previous_quarter)
        THEN RoundDiv(difference * 100 * Scale, previous_quarter)
        ELSE FDecimals(float_percent(difference, previous_quarter), 2)

calculate_revenue_growth_none_as_zero(fd) ==
    IF Len(fd) < 2 THEN None
    ELSE LET keys == [i \in 1..Len(fd) |-> <<fd[i].year, fd[i].quarter>>]
             sorted_data == sorted_reverse(fd, keys)
             revenues == [i \in 1..Len(sorted_data) |->
                             IF sorted_data[i].revenue = None THEN 0
                             ELSE Val(sorted_data[i].revenue)]
         IN  IF revenues[2] <= 0 THEN None
             ELSE Some(qoq_growth(revenues[1], revenues[2]))

calculate_revenue_growth_zero_only(fd) ==
    IF Len(fd) < 2 THEN None
    ELSE LET keys == [i \in 1..Len(fd) |-> <<fd[i].year, fd[i].quarter>>]
             sorted_data == sorted_reverse(fd, keys)
             revenues == present_revenues(sorted_data)
         IN  IF Len(revenues) < 2 THEN None
             ELSE IF revenues[2] = 0 THEN None
             ELSE Some(qoq_growth(revenues[1], revenues[2]))

calculate_revenue_growth_unsorted(fd) ==
    IF Len(fd) < 2 THEN None
    ELSE LET revenues == present_revenues(fd)
         IN  IF Len(revenues) < 2 THEN None
             ELSE IF revenues[2] <= 0 THEN None
             ELSE Some(qoq_growth(revenues[1], revenues[2]))

calculate_revenue_growth(fd) ==
    IF Len(fd) < 2 THEN None
    ELSE LET keys == [i \in 1..Len(fd) |-> <<fd[i].year, fd[i].quarter>>]
             sorted_data == sorted_reverse(fd, keys)
             revenues == present_revenues(sorted_data)
         IN  IF Len(revenues) < 2 THEN None
             ELSE LET current_quarter == revenues[1]
                      previous_quarter == revenues[2]
                  IN  IF previous_quarter <= 0 THEN None
                      ELSE Some(qoq_growth(current_quarter, previous_quarter))

----------------------------------------------------------------------------
(* FinancialAnalyzer.analyze_ebit_margin_trend                             *)

present_margins(data) ==
    LET kept == SelectSeq(data, LAMBDA d : d.ebit_margin # None)
    IN  [i \in 1..Len(kept) |-> kept[i].ebit_margin]

\* The sum of np.mean: for fewer than 8 values numpy adds them one by one,
\* starting from zero.
RECURSIVE FSum(_)
FSum(values) ==
    IF values = <<>> THEN FZero
    ELSE FAdd(FSum(SubSeq(values, 1, Len(values) - 1)), values[Len(values)])

\* round(np.mean(margins), 2) with the mean taken over count values: the
\* float64 sum divided by the count, then numpy's round.
float_rounded_mean(margins, count) ==
    FNumpyRound2(FDiv(FSum([k \in 1..Len(margins) |-> percent_float(margins[k])]),
                      FOfInt(count)))

\* The same for margins written in hundredths whose mean is not halfway
\* between two hundredths: the floats cannot change the rounding.
rounded_mean(margins, count) ==
    IF /\ \A k \in 1..Len(margins) :
              Len(margins[k]) = 1 /\ Abs(Val(margins[k])) < MaxExact * Scale
       /\ ~IsTie(SumSeq([k \in 1..Len(margins) |-> Val(margins[k])]), count)
    THEN RoundDiv(SumSeq([k \in 1..Len(margins) |-> Val(margins[k])]), count)
    ELSE float_rounded_mean(margins, count)

analyze_ebit_margin_trend_absent_as_zero(fd) ==
    IF fd = <<>> THEN [avg_margin |-> None]
    ELSE LET margins == present_margins(fd)
         IN  IF margins = <<>> THEN [avg_margin |-> None]
             ELSE [avg_margin |-> Some(rounded_mean(margins, Len(fd)))]

analyze_ebit_margin_trend_empty_as_zero(fd) ==
    IF fd = <<>> THEN [avg_margin |-> Some(0)]
    ELSE LET margins == present_margins(fd)
         IN  IF margins = <<>> THEN [avg_margin |-> None]
             ELSE [avg_margin |-> Some(rounded_mean(margins, Len(margins)))]

analyze_ebit_margin_trend(fd) ==
    IF fd = <<>> THEN [avg_margin |-> None]
    ELSE LET margins == present_margins(fd)
         IN  IF margins = <<>> THEN [avg_margin |-> None]
             ELSE [avg_margin |-> Some(rounded_mean(margins, Len(margins)))]

----------------------------------------------------------------------------
(* FinancialAnalyzer.analyze_technical_indicators                          *)

\* round(ma, 2) if pd.notna(ma) else None: numpy's round of the float64
\* written in thousandths, giving hundredths; the float operations decide
\* when the average is halfway between two hundredths.
round_ma(ma) ==
    IF IsNone(ma) THEN None
    ELSE IF ~IsTie(Val(ma) * Scale, Mills) THEN Some(RoundDiv(Val(ma) * Scale, Mills))
    ELSE Some(FNumpyRound2(FOfRatio(Val(ma), Mills)))

\* (current_price - ma) / ma * 100 if pd.notna(ma) else None, and then
\* round(price_vs_ma, 2) if price_vs_ma else None: the three operations are
\* float64 operations and the round is numpy's; a deviation of exactly 0
\* is falsy and comes out as None; a division by a zero average gives the
\* float inf, -inf or nan (all truthy), written <<sign, 0>>.  As in
\* qoq_growth, the float operations decide only when the rational is
\* halfway between two hundredths.
float_deviation(price, average) ==
    FMul(FDiv(FSub(price, average), average), Hundred)

price_vs_ma(price, ma) ==
    IF IsNone(ma) THEN None
    ELSE IF Val(ma) = 0
         THEN <<(IF price > 0 THEN 1 ELSE IF price < 0 THEN -1 ELSE 0), 0>>
    ELSE IF price = Val(ma) THEN None
    ELSE IF /\ Abs(price - Val(ma)) < MaxExact
            /\ ~IsTie((price - Val(ma)) * 100 * Scale, Val(ma))
         THEN Some(RoundDiv((price - Val(ma)) * 100 * Scale, Val(ma)))
    ELSE Some(FNumpyRound2(float_deviation(FOfRatio(price, Mills),
                                           FOfRatio(Val(ma), Mills))))

\* Variant that reports sentinel zeros in place of absent deviations.
no_technical_analysis_zero ==
    [ma_20 |-> None, ma_50 |-> None, ma_200 |-> None,
     price_vs_ma20 |-> Some(0), price_vs_ma50 |-> Some(0),
     price_vs_ma200 |-> Some(0), ma50_rising |-> FALSE]

\* The early return of lines 60-69 (technical_data.empty or not current_price).
no_technical_analysis ==
    [ma_20 |-> None, ma_50 |-> None, ma_200 |-> None,
     price_vs_ma20 |-> None, price_vs_ma50 |-> None, price_vs_ma200 |-> None,
     ma50_rising |-> FALSE]

\* len(technical_data) >= 10 and pd.notna(ma_50), then iloc[-10]['MA_50'].
ma50_is_rising_not_strict(td, ma_50) ==
    /\ Len(td) >= 10
    /\ NotNone(ma_50)
    /\ LET ma50_10_days_ago == td[Len(td) - 10 + 1].MA_50
       IN  NotNone(ma50_10_days_ago) /\ Val(ma_50) >= Val(ma50_10_days_ago)

ma50_is_rising(td, ma_50) ==
    /\ Len(td) >= 10
    /\ NotNone(ma_50)
    /\ LET ma50_10_days_ago == td[Len(td) - 10 + 1].MA_50
       IN  NotNone(ma50_10_days_ago) /\ Val(ma_50) > Val(ma50_10_days_ago)

\* The frame has the three columns that the try block reads.
has_ma_columns(td) ==
    \A k \in 1..Len(td) : {"MA_20", "MA_50", "MA_200"} \subseteq DOMAIN td[k]

\* Reading a column that the frame lacks raises KeyError inside the try
\* block; the except branch (lines 100-110) returns the same record as the
\* early return.
analyze_technical_indicators(td, price) ==
    IF td = <<>> \/ IsNone(price) THEN no_technical_analysis
    ELSE IF ~has_ma_columns(td) THEN no_technical_analysis
    ELSE LET latest_data == td[Len(td)]
             ma_20 == latest_data.MA_20
             ma_50 == latest_data.MA_50
             ma_200 == latest_data.MA_200
         IN  [ma_20 |-> round_ma(ma_20),
              ma_50 |-> round_ma(ma_50),
              ma_200 |-> round_ma(ma_200),
              price_vs_ma20 |-> price_vs_ma(Val(price), ma_20),
              price_vs_ma50 |-> price_vs_ma(Val(price), ma_50),
              price_vs_ma200 |-> price_vs_ma(Val(price), ma_200),
              ma50_rising |-> ma50_is_rising(td, ma_50)]

----------------------------------------------------------------------------
(* FinancialAnalyzer.calculate_ranking_score                               *)

calculate_ranking_score_strict(growth, ebit, technical) ==
    LET growth_points ==
            IF IsNone(growth) THEN 0
            ELSE IF Val(growth) > 10 * Scale THEN 40
            ELSE IF Val(growth) > 5 * Scale THEN 30
            ELSE IF Val(growth) > 0 THEN 20
            ELSE 0
        avg_margin == ebit.avg_margin
        margin_points ==
            IF IsNone(avg_margin) THEN 0
            ELSE IF Val(avg_margin) > 25 * Scale THEN 40
            ELSE IF Val(avg_margin) > 20 * Scale THEN 35
            ELSE IF Val(avg_margin) > 15 * Scale THEN 30
            ELSE IF Val(avg_margin) > 10 * Scale THEN 20
            ELSE IF Val(avg_margin) > 5 * Scale THEN 10
            ELSE 0
        ma50_points == IF technical.ma50_rising THEN 20 ELSE 0
    IN  growth_points + margin_points + ma50_points

calculate_ranking_score_ma50_40(growth, ebit, technical) ==
    LET growth_points ==
            IF IsNone(growth) THEN 0
            ELSE IF Val(growth) >= 10 * Scale THEN 40
            ELSE IF Val(growth) >= 5 * Scale THEN 30
            ELSE IF Val(growth) >= 0 THEN 20
            ELSE 0
        avg_margin == ebit.avg_margin
        margin_points ==
            IF IsNone(avg_margin) THEN 0
            ELSE IF Val(avg_margin) >= 25 * Scale THEN 40
            ELSE IF Val(avg_margin) >= 20 * Scale THEN 35
            ELSE IF Val(avg_margin) >= 15 * Scale THEN 30
            ELSE IF Val(avg_margin) >= 10 * Scale THEN 20
            ELSE IF Val(avg_margin) >= 5 * Scale THEN 10
            ELSE 0
        ma50_points == IF technical.ma50_rising THEN 40 ELSE 0
    IN  growth_points + margin_points + ma50_points

\* The score is a sum of whole numbers, which round(score, 1) leaves as is.
calculate_ranking_score(growth, ebit, technical) ==
    LET growth_points ==
            IF IsNone(growth) THEN 0
            ELSE IF Val(growth) >= 10 * Scale THEN 40
            ELSE IF Val(growth) >= 5 * Scale THEN 30
            ELSE IF Val(growth) >= 0 THEN 20
            ELSE 0
        avg_margin == ebit.avg_margin
        margin_points ==
            IF IsNone(avg_margin) THEN 0
            ELSE IF Val(avg_margin) >= 25 * Scale THEN 40
            ELSE IF Val(avg_margin) >= 20 * Scale THEN 35
            ELSE IF Val(avg_margin) >= 15 * Scale THEN 30
            ELSE IF Val(avg_margin) >= 10 * Scale THEN 20
            ELSE IF Val(avg_margin) >= 5 * Scale THEN 10
            ELSE 0
        ma50_points == IF technical.ma50_rising THEN 20 ELSE 0
    IN  growth_points + margin_points + ma50_points

----------------------------------------------------------------------------
(* FinancialAnalyzer.analyze_stock                                         *)

recommendation_of_exclusive(score) ==
    IF score > 80 THEN "STRONG BUY"
    ELSE IF score > 60 THEN "BUY"
    ELSE IF score > 40 THEN "HOLD"
    ELSE "SELL"

recommendation_of(score) ==
    IF score >= 80 THEN "STRONG BUY"
    ELSE IF score >= 60 THEN "BUY"
    ELSE IF score >= 40 THEN "HOLD"
    ELSE "SELL"

\* The dictionary that analyze_stock returns, lines 177-193.
analysis_record(symbol, price, growth, ebit, technical, score) ==
    [symbol |-> symbol,
     revenue_growth_4q |-> growth,
     avg_ebit_margin |-> ebit.avg_margin,
     current_price |-> price,
     ma_20 |-> technical.ma_20,
     ma_50 |-> technical.ma_50,
     ma_200 |-> technical.ma_200,
     price_vs_ma20 |-> technical.price_vs_ma20,
     price_vs_ma50 |-> technical.price_vs_ma50,
     price_vs_ma200 |-> technical.price_vs_ma200,
     ma50_rising |-> technical.ma50_rising,
     ebit_trend_details |-> ebit,
     technical_details |-> technical,
     ranking_score |-> score,
     recommendation |-> recommendation_of(score)]

\* The score of the three analyses and the dictionary built from them.
scored_analysis(symbol, price, growth, ebit, technical) ==
    analysis_record(symbol, price, growth, ebit, technical,
                    calculate_ranking_score(growth, ebit, technical))

analyze_stock(symbol, fd, td, price) ==
    scored_analysis(symbol, price, calculate_revenue_growth(fd),
                    analyze_ebit_margin_trend(fd),
                    analyze_technical_indicators(td, price))

----------------------------------------------------------------------------
(* FinancialAnalyzer.rank_stocks                                           *)

\* Variant that rebuilds the result from its headline fields.
set_rank_headline(stock, value) ==
    [symbol |-> stock.symbol, ranking_score |-> stock.ranking_score,
     recommendation |-> stock.recommendation, rank |-> value]

\* stock['rank'] = value, adding the key or overwriting it.
set_rank(stock, value) ==
    [f \in DOMAIN stock \cup {"rank"} |-> IF f = "rank" THEN value ELSE stock[f]]

\* The loop sets 'rank' on the caller's own records: the input list shows
\* the ranks too, in its own order.
ranked_in_place(results) ==
    LET keys == [i \in 1..Len(results) |-> <<results[i].ranking_score>>]
        order == sorted_order(keys, Len(results))
    IN  [i \in 1..Len(results) |->
            set_rank(results[i], CHOOSE q \in 1..Len(results) : order[q] = i)]

rank_stocks_zero_based(results) ==
    LET keys == [i \in 1..Len(results) |-> <<results[i].ranking_score>>]
        ranked == sorted_reverse(results, keys)
    IN  [i \in 1..Len(ranked) |-> set_rank(ranked[i], i - 1)]

rank_stocks(results) ==
    LET keys == [i \in 1..Len(results) |-> <<results[i].ranking_score>>]
        ranked == sorted_reverse(results, keys)
    IN  [i \in 1..Len(ranked) |-> set_rank(ranked[i], i)]

----------------------------------------------------------------------------
(* YahooFinanceCollector (src/data_collector.py)                           *)

\* (operating_income / revenue * 100) if revenue and operating_income else
\* None: an absent or zero revenue or operating income gives None, every
\* other pair is divided, a negative revenue included, and the float is
\* kept as it is.  A quotient that is itself a double is divided and
\* multiplied without error.
ebit_margin_of(revenue, operating_income) ==
    IF IsNone(revenue) \/ revenue = Some(0) THEN None
    ELSE IF IsNone(operating_income) \/ operating_income = Some(0) THEN None
    ELSE IF /\ Abs(Val(operating_income)) < MaxExact
            /\ IsDyadic(Val(operating_income), Abs(Val(revenue)))
            /\ (Val(operating_income) * 100 * Scale) % Abs(Val(revenue)) = 0
         THEN Some(RoundDiv(Val(operating_income) * 100 * Scale, Val(revenue)))
    ELSE as_percent(float_percent(Val(operating_income), Val(revenue)))

\* Number of statement columns that get_fundamental_data reads.
LastQuarters == 4

\* statements is stock.quarterly_financials, the provider's statement
\* columns, most recent first; an empty statement, like a failed request,
\* gives the empty list.
get_fundamental_data(statements) ==
    LET n == IF Len(statements) < LastQuarters
             THEN Len(statements) ELSE LastQuarters
    IN  [k \in 1..n |->
            LET quarter == statements[k]
            IN  [quarter |-> quarter.quarter,
                 year |-> quarter.year,
                 revenue |-> quarter.revenue,
                 operating_income |-> quarter.operating_income,
                 ebit_margin |-> ebit_margin_of(quarter.revenue,
                                                quarter.operating_income)]]

----------------------------------------------------------------------------
(* validate_and_clean_symbols (src/app.py); a string is a sequence of      *)
(* one-character strings, the characters being those of ASCII              *)

LowerCase ==
    <<"a", "b", "c", "d", "e", "f", "g", "h", "i", "j", "k", "l", "m",
      "n", "o", "p", "q", "r", "s", "t", "u", "v", "w", "x", "y", "z">>

UpperCase ==
    <<"A", "B", "C", "D", "E", "F", "G", "H", "I", "J", "K", "L", "M",
      "N", "O", "P", "Q", "R", "S", "T", "U", "V", "W", "X", "Y", "Z">>

\* The ASCII whitespace of str.strip() and str.isspace(): blank, tab,
\* newline, carriage return, form feed, the vertical tab (0x0b) and the four
\* separators 0x1c to 0x1f, the last five written as the characters
\* themselves.
WhiteSpace == {" ", "\t", "\n", "\r", "\f", "", "", "", "", ""}

\* str.upper on one character: a lower-case letter becomes its capital,
\* every other character stays.
upper_char(c) ==
    IF \E k \in 1..Len(LowerCase) : LowerCase[k] = c
    THEN UpperCase[CHOOSE k \in 1..Len(LowerCase) : LowerCase[k] = c]
    ELSE c

upper(s) == [k \in 1..Len(s) |-> upper_char(s[k])]

is_space(c) == c \in WhiteSpace

is_alpha_char(c) ==
    \E k \in 1..Len(LowerCase) : c = LowerCase[k] \/ c = UpperCase[k]

\* str.isalpha: at least one character and every character a letter.
isalpha(s) == s # <<>> /\ \A k \in 1..Len(s) : is_alpha_char(s[k])

\* s.split(','): the pieces between the commas, empty pieces included.
RECURSIVE split(_)
split(s) ==
    LET commas == {k \in 1..Len(s) : s[k] = ","}
    IN  IF commas = {} THEN <<s>>
        ELSE LET k == SetMin(commas)
             IN  <<SubSeq(s, 1, k - 1)>> \o split(SubSeq(s, k + 1, Len(s)))

\* s.strip(): without the leading and trailing whitespace.
strip(s) ==
    LET inked == {k \in 1..Len(s) : ~is_space(s[k])}
    IN  IF inked = {} THEN <<>>
        ELSE SubSeq(s, SetMin(inked), CHOOSE k \in inked : \A j \in inked : j <= k)

\* Longest symbol that validate_and_clean_symbols accepts.
MaxSymbolLen == 5

validate_and_clean_symbols(symbols_in) ==
    IF symbols_in = <<>> THEN <<>>
    ELSE LET pieces == SelectSeq(split(symbols_in), LAMBDA s : strip(s) # <<>>)
             cleaned == [k \in 1..Len(pieces) |-> upper(strip(pieces[k]))]
         IN  SelectSeq(cleaned, LAMBDA s : Len(s) <= MaxSymbolLen /\ isalpha(s))

----------------------------------------------------------------------------
(* FinancialDatabase (src/database.py).  A table is the sequence of its    *)
(* rows in insertion order; created_at is the reading of the clock at the  *)
(* insertion.                                                              *)

\* A database file is the function from the names of the tables that exist
\* in it to their rows.  NewFile has no table: a file that sqlite3.connect
\* has just created, or one whose tables have all been dropped.
NewFile == <<>>

\* CREATE TABLE IF NOT EXISTS: a table that exists keeps its rows.
create_table(tables, name) ==
    [t \in DOMAIN tables \cup {name} |-> IF t \in DOMAIN tables THEN tables[t] ELSE <<>>]

\* DROP TABLE IF EXISTS.
drop_table(tables, name) == [t \in DOMAIN tables \ {name} |-> tables[t]]

\* The statements of init_database.
InitStatements ==
    <<[sql |-> "CREATE TABLE IF NOT EXISTS stocks",
       verb |-> "CREATE", table |-> "stocks"],
      [sql |-> "CREATE TABLE IF NOT EXISTS fundamental_data",
       verb |-> "CREATE", table |-> "fundamental_data"],
      [sql |-> "CREATE TABLE IF NOT EXISTS technical_data",
       verb |-> "CREATE", table |-> "technical_data"],
      [sql |-> "CREATE TABLE IF NOT EXISTS analysis_results",
       verb |-> "CREATE", table |-> "analysis_results"]>>

\* The DROP statements of clear_database; financial_data is a table of an
\* older schema.
DropStatements ==
    <<[sql |-> "DROP TABLE IF EXISTS analysis_results",
       verb |-> "DROP", table |-> "analysis_results"],
      [sql |-> "DROP TABLE IF EXISTS technical_data",
       verb |-> "DROP", table |-> "technical_data"],
      [sql |-> "DROP TABLE IF EXISTS fundamental_data",
       verb |-> "DROP", table |-> "fundamental_data"],
      [sql |-> "DROP TABLE IF EXISTS financial_data",
       verb |-> "DROP", table |-> "financial_data"],
      [sql |-> "DROP TABLE IF EXISTS stocks",
       verb |-> "DROP", table |-> "stocks"]>>

\* The statements of clear_database, those of its call of init_database
\* included.  The connection is in sqlite3's default mode, in which a
\* CREATE or DROP statement is committed as soon as it has run.
ClearStatements == DropStatements \o InitStatements

execute(statement, tables) ==
    IF statement.verb = "DROP" THEN drop_table(tables, statement.table)
    ELSE create_table(tables, statement.table)

\* The file after the first n of the statements.
RECURSIVE executed(_, _, _)
executed(statements, n, tables) ==
    IF n = 0 THEN tables
    ELSE execute(statements[n], executed(statements, n - 1, tables))

\* init_database: the constructor of FinancialDatabase runs it in every
\* script run.
init_database(file) == executed(InitStatements, Len(InitStatements), file)

\* The rows of a table, none for a table that the file does not have.
table_rows(tables, name) == IF name \in DOMAIN tables THEN tables[name] ELSE <<>>

\* A float bound to a REAL column: NaN is stored as NULL, infinities stay.
sql_real(v) == IF v = <<0, 0>> THEN None ELSE v

\* INSERT OR REPLACE: the rows that agree with the new row on the columns
\* of a UNIQUE constraint are deleted, then the new row is added at the end.
insert_or_replace(rows, row, unique) ==
    Append(SelectSeq(rows, LAMBDA old : \E c \in unique : old[c] # row[c]), row)

\* stocks: symbol TEXT UNIQUE.
stocks_unique == {"symbol"}

\* Without the table the INSERT raises sqlite3.OperationalError, which
\* lines 107-108 catch: nothing is written.
add_stock(tables, symbol, company_name, clock) ==
    IF "stocks" \notin DOMAIN tables THEN tables
    ELSE [tables EXCEPT !.stocks =
             insert_or_replace(@, [symbol |-> upper(symbol),
                                   company_name |-> company_name,
                                   last_updated |-> clock],
                               stocks_unique)]

\* fundamental_data: UNIQUE(symbol, quarter, year).
fundamental_data_unique == {"symbol", "quarter", "year"}

RECURSIVE store_fundamental_rows(_, _, _, _)
store_fundamental_rows(rows, symbol, fundamental, clock) ==
    IF fundamental = <<>> THEN rows
    ELSE LET data == Head(fundamental)
             row == [symbol |-> upper(symbol),
                     quarter |-> data.quarter,
                     year |-> data.year,
                     revenue |-> sql_real(data.revenue),
                     operating_income |-> sql_real(data.operating_income),
                     ebit_margin |-> sql_real(data.ebit_margin),
                     created_at |-> clock]
         IN  store_fundamental_rows(insert_or_replace(rows, row, fundamental_data_unique),
                                    symbol, Tail(fundamental), clock)

\* Without the table the first INSERT raises sqlite3.OperationalError, which
\* lines 130-131 catch.
store_fundamental_data(tables, symbol, fundamental, clock) ==
    IF "fundamental_data" \notin DOMAIN tables THEN tables
    ELSE [tables EXCEPT !.fundamental_data =
             store_fundamental_rows(@, symbol, fundamental, clock)]

\* The rows that to_sql writes for a frame; the date of a row is its
\* position in the frame.  created_at is the column's default, the clock, in
\* the table of the schema, and absent in a table that to_sql made.
technical_rows(symbol, technical, created_at) ==
    [k \in 1..Len(technical) |->
        [symbol |-> upper(symbol),
         date |-> k,
         ma_20 |-> sql_real(technical[k].MA_20),
         ma_50 |-> sql_real(technical[k].MA_50),
         ma_200 |-> sql_real(technical[k].MA_200),
         created_at |-> created_at]]

\* The table was made by to_sql: its rows have no created_at.  Such a table
\* is never empty.
made_by_to_sql(stored) == stored # <<>> /\ stored[1].created_at = None

\* technical_data: UNIQUE(symbol, date).  to_sql (if_exists='append')
\* appends the whole frame in one transaction; a frame without one of the
\* selected columns (KeyError) or a row that repeats a stored (symbol, date)
\* (IntegrityError) makes the call fail, the exception is caught and nothing
\* is stored.  Without the table to_sql creates one from the frame's
\* columns, with no created_at and no UNIQUE constraint, which a later
\* CREATE TABLE IF NOT EXISTS leaves as it is.
store_technical_data(tables, symbol, technical, has_columns, clock) ==
    IF ~has_columns THEN tables
    ELSE IF "technical_data" \notin DOMAIN tables
    THEN [t \in DOMAIN tables \cup {"technical_data"} |->
             IF t = "technical_data" THEN technical_rows(symbol, technical, None)
             ELSE tables[t]]
    ELSE IF made_by_to_sql(tables.technical_data)
    THEN [tables EXCEPT !.technical_data = @ \o technical_rows(symbol, technical, None)]
    ELSE LET rows == technical_rows(symbol, technical, Some(clock))
             stored == tables.technical_data
             repeated == \E k \in 1..Len(rows), j \in 1..Len(stored) :
                             /\ stored[j].symbol = rows[k].symbol
                             /\ stored[j].date = rows[k].date
         IN  IF repeated THEN tables
             ELSE [tables EXCEPT !.technical_data = @ \o rows]

\* A table and a query with a column for ma50_rising; the schema has none.
store_analysis_result_with_ma50(tables, symbol, result, clock) ==
    IF "analysis_results" \notin DOMAIN tables THEN tables
    ELSE
    [tables EXCEPT !.analysis_results =
        Append(@,
            [symbol |-> upper(symbol),
             revenue_growth_4q |-> sql_real(result.revenue_growth_4q),
             avg_ebit_margin |-> sql_real(result.avg_ebit_margin),
             ebit_margin_trend |-> None,
             current_price |-> sql_real(result.current_price),
             ma_20 |-> sql_real(result.ma_20),
             ma_50 |-> sql_real(result.ma_50),
             ma_200 |-> sql_real(result.ma_200),
             price_vs_ma20 |-> sql_real(result.price_vs_ma20),
             price_vs_ma50 |-> sql_real(result.price_vs_ma50),
             price_vs_ma200 |-> sql_real(result.price_vs_ma200),
             ranking_score |-> result.ranking_score,
             recommendation |-> result.recommendation,
             summary |-> None,
             ma50_rising |-> result.ma50_rising,
             created_at |-> clock])]

\* analysis_results has no UNIQUE constraint besides its own id, so INSERT
\* OR REPLACE never finds a conflicting row and always adds one.  The
\* result has no 'ebit_margin_trend' and no 'summary' key (get gives None),
\* and the table has no column for ma50_rising.  Without the table the
\* INSERT raises sqlite3.OperationalError, which lines 239-240 catch.
store_analysis_result(tables, symbol, result, clock) ==
    IF "analysis_results" \notin DOMAIN tables THEN tables
    ELSE
    [tables EXCEPT !.analysis_results =
        Append(@,
            [symbol |-> upper(symbol),
             revenue_growth_4q |-> sql_real(result.revenue_growth_4q),
             avg_ebit_margin |-> sql_real(result.avg_ebit_margin),
             ebit_margin_trend |-> None,
             current_price |-> sql_real(result.current_price),
             ma_20 |-> sql_real(result.ma_20),
             ma_50 |-> sql_real(result.ma_50),
             ma_200 |-> sql_real(result.ma_200),
             price_vs_ma20 |-> sql_real(result.price_vs_ma20),
             price_vs_ma50 |-> sql_real(result.price_vs_ma50),
             price_vs_ma200 |-> sql_real(result.price_vs_ma200),
             ranking_score |-> result.ranking_score,
             recommendation |-> result.recommendation,
             summary |-> None,
             created_at |-> clock])]

\* SELECT ... FROM analysis_results ORDER BY ranking_score DESC, without the
\* id and created_at columns; rows of equal score come in insertion order.
\* The table is there: without it read_sql_query raises (see
\* display_analysis_results).
get_all_analysis_results(tables) ==
    LET stored == tables.analysis_results
        keys == [k \in 1..Len(stored) |-> <<stored[k].ranking_score>>]
        ordered == sorted_reverse(stored, keys)
    IN  [k \in 1..Len(ordered) |->
            [f \in DOMAIN ordered[k] \ {"created_at"} |-> ordered[k][f]]]

----------------------------------------------------------------------------
(* ClaudeAnalyst._prepare_analysis_summary (src/claude_integration.py)     *)

\* The default 'N/A' of stock.get(key, 'N/A').
NotAvailable == <<"N", "/", "A">>

\* dict.get(key, default).
dict_get(stock, key, default) ==
    IF key \in DOMAIN stock THEN stock[key] ELSE default

\* One entry per stock with the values that its five lines print: each is
\* the stock's value under the key the line reads, or 'N/A' without it.
prepare_analysis_summary(stocks) ==
    [k \in 1..Len(stocks) |->
        [symbol |-> stocks[k].symbol,
         rank |-> dict_get(stocks[k], "rank", NotAvailable),
         revenue_growth |-> dict_get(stocks[k], "revenue_growth_3yr", NotAvailable),
         avg_ebit_margin |-> dict_get(stocks[k], "avg_ebit_margin", NotAvailable),
         ebit_margin_trend |-> dict_get(stocks[k], "ebit_margin_trend", NotAvailable),
         ranking_score |-> dict_get(stocks[k], "ranking_score", NotAvailable)]]

----------------------------------------------------------------------------
(* Bounds and input domains                                                *)

\* How far around each threshold the score inputs are sampled (hundredths).
Near == 1
\* Longest fundamental sequence handed to the growth and margin functions.
MaxQuarters == 3
\* Longest fundamental sequence handed to analyze_stock.
MaxStockQuarters == 2
\* Longest price sequence.
MaxPoints == 11
\* Largest batch handed to rank_stocks.
MaxBatch == 3

Symbols == {"AAA", "BBB", "CCC"}

\* All sequences over S of length at most n.
SeqsUpTo(S, n) == UNION {[1..k -> S] : k \in 0..n}

ScoreGrowthInputs ==
    {None} \cup {Some(b * Scale + d) : b \in {0, 5, 10}, d \in (-Near)..Near}

ScoreMarginInputs ==
    {None} \cup {Some(b * Scale + d) : b \in {5, 10, 15, 20, 25}, d \in (-Near)..Near}

\* (year, quarter) keys.  The collector labels quarters "Q1".."Q4"; the
\* labels compare like the numbers 1..4, which stand for them here.
Quarters == {<<2023, 4>>, <<2024, 1>>, <<2024, 2>>}

FundamentalRecords(keys, revenues, margins) ==
    {[year |-> k[1], quarter |-> k[2], revenue |-> r, ebit_margin |-> m] :
        k \in keys, r \in revenues, m \in margins}

\* Revenues: 4 after 3 grows by a third, and 183 after 160 by 14.375 per
\* cent, halfway between two hundredths.
GrowthRecords ==
    FundamentalRecords(Quarters,
                       {None, Some(-3), Some(0), Some(3), Some(4), Some(160),
                        Some(183)},
                       {None})

\* Margins: 5.01 averages with -5, 10 or 20 to a value halfway between two
\* hundredths.
MarginRecords ==
    FundamentalRecords({<<2024, 1>>, <<2024, 2>>}, {Some(100)},
                       {None, Some(-5 * Scale), Some(5 * Scale + 1),
                        Some(10 * Scale), Some(20 * Scale)})

StockRecords ==
    FundamentalRecords({<<2024, 1>>, <<2024, 2>>}, {None, Some(100), Some(110)},
                       {None, Some(10 * Scale), Some(25 * Scale)})

\* Price rows: averages of 100.000, 100.004 (rounds to the same 100.00) and
\* absent ones.
TechRows ==
    {[MA_20 |-> a, MA_50 |-> b, MA_200 |-> c] :
        a \in {None, Some(100 * Mills)},
        b \in {None, Some(100 * Mills), Some(100 * Mills + 4)},
        c \in {Some(100 * Mills)}}

\* n rows: p rows a, then rows b up to row q, then rows c.
three_part(n, p, q, a, b, c) ==
    [i \in 1..n |-> IF i <= p THEN a ELSE IF i <= q THEN b ELSE c]

\* All price sequences of at most max rows made of at most three runs.
TechInputs(max) ==
    UNION {UNION {{three_part(n, p, q, a, b, c) :
                      q \in p..n, a \in TechRows, b \in TechRows, c \in TechRows} :
                  p \in 0..n} :
           n \in 0..max}

PriceInputs == {None, Some(100 * Mills), Some(101 * Mills)}

Flat == [MA_20 |-> Some(100 * Mills), MA_50 |-> Some(100 * Mills),
         MA_200 |-> Some(100 * Mills)]
Up == [MA_20 |-> Some(100 * Mills), MA_50 |-> Some(100 * Mills + 4),
       MA_200 |-> Some(100 * Mills)]

\* A price row of a frame that has no moving-average columns.
Bare == [Close |-> Some(100 * Mills)]

StockTechInputs ==
    {<<>>, three_part(10, 10, 10, Flat, Flat, Flat), three_part(10, 5, 10, Flat, Up, Up),
     three_part(10, 10, 10, Bare, Bare, Bare)}

\* Most runs of run_analysis that are followed step by step.
MaxRuns == 1
\* Most runs of run_analysis in a session whose runs may be stopped.
MaxSessionRuns == 2
\* Most comma-separated pieces in a submitted text.
MaxTokens == 2

\* Pieces of a submitted text: "a", " b" followed by a newline, "a1" and "".
Tokens == {<<"a">>, <<" ", "b", "\n">>, <<"a", "1">>, <<>>}

\* Texts of one piece besides: "a" between a vertical tab and a unit
\* separator, and "ababab".
OtherTexts == {<<"", "a", "">>, <<"a", "b", "a", "b", "a", "b">>}

\* ','.join(pieces).
RECURSIVE join(_)
join(pieces) ==
    IF pieces = <<>> THEN <<>>
    ELSE IF Len(pieces) = 1 THEN pieces[1]
    ELSE pieces[1] \o <<",">> \o join(Tail(pieces))

SymbolsInputs ==
    {join(pieces) : pieces \in SeqsUpTo(Tokens, MaxTokens)} \cup OtherTexts

\* Most comma-separated pieces in a text submitted in a session with stops.
MaxSessionTokens == 1

\* Pieces of a text submitted in such a session: "a" and "a1".
SessionTokens == {<<"a">>, <<"a", "1">>}

SessionInputs ==
    {join(pieces) : pieces \in SeqsUpTo(SessionTokens, MaxSessionTokens)}

\* What validate_and_clean_symbols makes of each of these texts.
valid_symbols == [text \in SymbolsInputs \cup SessionInputs |->
                     validate_and_clean_symbols(text)]

\* Statement columns as the provider lists them, most recent first: two
\* profitable quarters, and a quarter of negative revenue before a positive
\* one.  The margins (50, 25, 50 and -25 per cent) divide without a
\* rounding error.
Growing ==
    <<[year |-> 2024, quarter |-> 2, revenue |-> Some(110),
       operating_income |-> Some(55)],
      [year |-> 2024, quarter |-> 1, revenue |-> Some(100),
       operating_income |-> Some(25)]>>

Reversal ==
    <<[year |-> 2024, quarter |-> 2, revenue |-> Some(50),
       operating_income |-> Some(25)],
      [year |-> 2024, quarter |-> 1, revenue |-> Some(-100),
       operating_income |-> Some(25)]>>

StatementInputs == {<<>>, Growing, Reversal}

\* Frames as get_daily_price_data returns them: empty, or rows that all
\* hold the three averages (rows without MA_200 are dropped, and a row with
\* MA_200 has the two shorter averages).
RunTechInputs == {<<>>, three_part(10, 5, 10, Flat, Up, Up)}

\* get_current_price: None or the last close.
RunPriceInputs == {None, Some(101 * Mills)}

\* get_stock_info, 'company_name': the provider's longName, or the symbol
\* when the provider has none or fails.
LongName == <<"A", "l", "p", "h", "a", " ", "I", "n", "c">>

CompanyNames(symbol) == {symbol, LongName}

\* A new session (the first visit, a new tab, a reload of the page, a
\* restart of the server) before its first run: no text submitted, the
\* session state of lines 24-27, the instructions on the page.
NewSession ==
    /\ symbols_input = <<>>
    /\ symbols = <<>>
    /\ idx = 0
    /\ collected_data = <<>>
    /\ session_state = [analysis_complete |-> FALSE, analyzed_stocks |-> <<>>]
    /\ now = 0
    /\ analysis_summary = <<>>
    /\ page = [shown |-> "instructions", table |-> <<>>]

\* The application at its first start: a new session on a new file.
RunIdle ==
    /\ NewSession
    /\ db = init_database(NewFile)

\* The file that an earlier session left after a completed run_analysis of
\* the symbol Z, for which the provider had no data.
LeftByEarlierSession ==
    LET symbol == <<"Z">>
        stocked == add_stock(init_database(NewFile), symbol, symbol, 0)
    IN  store_analysis_result(stocked, symbol,
                              analyze_stock(symbol, <<>>, <<>>, None), 0)

\* The database file that a new session finds: a new one, or the file of
\* the earlier session as that session left it or as a clear_database that
\* did not run to its end left it.
FileInputs ==
    {NewFile} \cup {executed(ClearStatements, n, LeftByEarlierSession) :
                        n \in 0..Len(ClearStatements)}

----------------------------------------------------------------------------
(* Specification of calculate_ranking_score on sampled inputs              *)

ScoreInit ==
    /\ pc = "call"
    /\ revenue_growth \in ScoreGrowthInputs
    /\ ebit_analysis \in {[avg_margin |-> m] : m \in ScoreMarginInputs}
    /\ technical_analysis \in
           {[no_technical_analysis EXCEPT !.ma50_rising = b] : b \in BOOLEAN}
    /\ ranking_score = None
    /\ fundamental_data = <<>>
    /\ technical_data = <<>>
    /\ current_price = None
    /\ analysis = None
    /\ analysis_results = <<>>
    /\ ranked_stocks = None
    /\ RunIdle
    /\ quarterly_financials = <<>>

call_calculate_ranking_score ==
    /\ pc = "call"
    /\ ranking_score' =
           Some(calculate_ranking_score(revenue_growth, ebit_analysis,
                                        technical_analysis))
    /\ pc' = "done"
    /\ UNCHANGED <<fundamental_data, technical_data, current_price,
                   revenue_growth, ebit_analysis, technical_analysis, analysis,
                   analysis_results, ranked_stocks,
                   RunVars>>

ScoreNext == call_calculate_ranking_score

SpecScore == ScoreInit /\ [][ScoreNext]_vars

\* Bucket tables of the ranking contract, one row per bucket.
GrowthBucket(g) ==
    IF IsNone(g) THEN 0
    ELSE CASE Val(g) >= 10 * Scale -> 40
           [] Val(g) >= 5 * Scale /\ Val(g) < 10 * Scale -> 30
           [] Val(g) >= 0 /\ Val(g) < 5 * Scale -> 20
           [] Val(g) < 0 -> 0

MarginBucket(m) ==
    IF IsNone(m) THEN 0
    ELSE CASE Val(m) >= 25 * Scale -> 40
           [] Val(m) >= 20 * Scale /\ Val(m) < 25 * Scale -> 35
           [] Val(m) >= 15 * Scale /\ Val(m) < 20 * Scale -> 30
           [] Val(m) >= 10 * Scale /\ Val(m) < 15 * Scale -> 20
           [] Val(m) >= 5 * Scale /\ Val(m) < 10 * Scale -> 10
           [] Val(m) < 5 * Scale -> 0

\* C1: for every growth (absent or a number), average margin (absent or a
\* number) and ma50_rising flag, the score is the sum of the three bucket
\* lookups, a value on a boundary falling into the higher bucket.
C1_ScoreIsSumOfBuckets ==
    pc = "done" =>
        Val(ranking_score) =
            GrowthBucket(revenue_growth) + MarginBucket(ebit_analysis.avg_margin)
                + (IF technical_analysis.ma50_rising THEN 20 ELSE 0)

\* Growth exactly 5 and margin exactly 15 score 30 + 30.
C1_Witness ==
    /\ pc = "done"
    /\ revenue_growth = Some(5 * Scale)
    /\ ebit_analysis.avg_margin = Some(15 * Scale)
    /\ ~technical_analysis.ma50_rising
    /\ ranking_score = Some(60)

\* C2: the score is always within [0, 100], and it is exactly 100 when
\* growth >= 10, margin >= 25 and ma50_rising is true.
C2_ScoreBounded ==
    pc = "done" =>
        /\ Val(ranking_score) >= 0
        /\ Val(ranking_score) <= 100
        /\ (/\ NotNone(revenue_growth) /\ Val(revenue_growth) >= 10 * Scale
            /\ NotNone(ebit_analysis.avg_margin)
            /\ Val(ebit_analysis.avg_margin) >= 25 * Scale
            /\ technical_analysis.ma50_rising)
           => Val(ranking_score) = 100

C2_Witness ==
    /\ pc = "done"
    /\ revenue_growth = Some(10 * Scale)
    /\ ebit_analysis.avg_margin = Some(25 * Scale)
    /\ technical_analysis.ma50_rising
    /\ ranking_score = Some(100)

----------------------------------------------------------------------------
(* Specification of analyze_stock on sampled inputs                        *)

StockInit ==
    /\ pc = "call"
    /\ fundamental_data \in SeqsUpTo(StockRecords, MaxStockQuarters)
    /\ technical_data \in StockTechInputs
    /\ current_price \in PriceInputs
    /\ analysis = None
    /\ revenue_growth = None
    /\ ebit_analysis = None
    /\ technical_analysis = None
    /\ ranking_score = None
    /\ analysis_results = <<>>
    /\ ranked_stocks = None
    /\ RunIdle
    /\ quarterly_financials = <<>>

call_analyze_stock ==
    /\ pc = "call"
    /\ \E symbol \in Symbols :
           analysis' = analyze_stock(symbol, fundamental_data, technical_data,
                                     current_price)
    /\ pc' = "done"
    /\ UNCHANGED <<fundamental_data, technical_data, current_price,
                   revenue_growth, ebit_analysis, technical_analysis,
                   ranking_score, analysis_results, ranked_stocks,
                   RunVars>>

StockNext == call_analyze_stock

SpecStock == StockInit /\ [][StockNext]_vars

\* C3: in every result of analyze_stock the recommendation is decided by the
\* ranking score alone: STRONG BUY iff score >= 80, BUY iff 60 <= score < 80,
\* HOLD iff 40 <= score < 60, SELL iff score < 40.
C3_RecommendationFromScore ==
    pc = "done" =>
        LET score == analysis.ranking_score
            rec == analysis.recommendation
        IN  /\ rec \in {"STRONG BUY", "BUY", "HOLD", "SELL"}
            /\ (rec = "STRONG BUY") <=> (score >= 80)
            /\ (rec = "BUY") <=> (score >= 60 /\ score < 80)
            /\ (rec = "HOLD") <=> (score >= 40 /\ score < 60)
            /\ (rec = "SELL") <=> (score < 40)

\* A score exactly on the 80 boundary is a STRONG BUY.
C3_Witness ==
    /\ pc = "done"
    /\ analysis.ranking_score = 80
    /\ analysis.recommendation = "STRONG BUY"

\* A fault while reading the price frame does not propagate: a frame
\* without the moving-average columns gives the all-absent, not rising
\* technical result, and the stock is scored on its fundamentals.
TechnicalFaultDegrades ==
    (pc = "done" /\ technical_data # <<>> /\ ~has_ma_columns(technical_data)) =>
        /\ analysis.technical_details = no_technical_analysis
        /\ analysis.ma50_rising = FALSE
        /\ analysis.ranking_score \in 0..80

\* C14: for a ticker with no fundamental records, an empty price series and
\* no current price, analyze_stock returns every derived field absent,
\* ma50_rising false, ranking score 0 and recommendation SELL.
C14_NothingKnownScoresZero ==
    (pc = "done" /\ fundamental_data = <<>> /\ technical_data = <<>>
        /\ current_price = None) =>
        /\ analysis.revenue_growth_4q = None
        /\ analysis.avg_ebit_margin = None
        /\ analysis.ma_20 = None
        /\ analysis.ma_50 = None
        /\ analysis.ma_200 = None
        /\ analysis.price_vs_ma20 = None
        /\ analysis.price_vs_ma50 = None
        /\ analysis.price_vs_ma200 = None
        /\ analysis.ma50_rising = FALSE
        /\ analysis.ranking_score = 0
        /\ analysis.recommendation = "SELL"

\* analyze_stock has returned for a ticker about which nothing is known.
C14_Witness ==
    /\ pc = "done"
    /\ fundamental_data = <<>>
    /\ technical_data = <<>>
    /\ current_price = None
    /\ analysis.symbol = "AAA"
    /\ analysis.ranking_score = 0

----------------------------------------------------------------------------
(* Specification of rank_stocks on sampled batches                         *)

Rec(key, revenue, margin) ==
    [year |-> key[1], quarter |-> key[2], revenue |-> revenue, ebit_margin |-> margin]

\* Inputs of analyze_stock that score 0, 80 (growth and margin) and 80
\* (growth, a lower margin and a rising MA50).
RankProfiles ==
    {<< <<>>, <<>>, None >>,
     << <<Rec(<<2024, 2>>, Some(110), Some(25 * Scale)),
          Rec(<<2024, 1>>, Some(100), Some(25 * Scale))>>, <<>>, None >>,
     << <<Rec(<<2024, 2>>, Some(110), Some(10 * Scale)),
          Rec(<<2024, 1>>, Some(100), Some(10 * Scale))>>,
        three_part(10, 5, 10, Flat, Up, Up), Some(101 * Mills) >>}

RankResults ==
    {analyze_stock(symbol, p[1], p[2], p[3]) : symbol \in Symbols, p \in RankProfiles}

\* What is left of a batch that an earlier call has ranked when its first
\* result is taken out: every result has a rank, from the larger batch.
RankedBefore ==
    {Tail(ranked_in_place(results)) :
        results \in SeqsUpTo(RankResults, MaxBatch) \ {<<>>}}

RankInit ==
    /\ pc = "call"
    /\ analysis_results \in SeqsUpTo(RankResults, MaxBatch) \cup RankedBefore
    /\ ranked_stocks = None
    /\ fundamental_data = <<>>
    /\ technical_data = <<>>
    /\ current_price = None
    /\ revenue_growth = None
    /\ ebit_analysis = None
    /\ technical_analysis = None
    /\ ranking_score = None
    /\ analysis = None
    /\ RunIdle
    /\ quarterly_financials = <<>>

call_rank_stocks ==
    /\ pc = "call"
    /\ ranked_stocks' = rank_stocks(analysis_results)
    /\ analysis_results' = ranked_in_place(analysis_results)
    /\ pc' = "done"
    /\ UNCHANGED <<fundamental_data, technical_data, current_price,
                   revenue_growth, ebit_analysis, technical_analysis,
                   ranking_score, analysis,
                   RunVars>>

RankNext == call_rank_stocks

SpecRank == RankInit /\ [][RankNext]_vars

\* A result without its rank.
StripRank(stock) == [f \in DOMAIN stock \ {"rank"} |-> stock[f]]

\* The results of a batch that have the given score, in the batch's order.
WithScore(results, score) ==
    LET kept == SelectSeq(results, LAMBDA r : r.ranking_score = score)
    IN  [i \in 1..Len(kept) |-> StripRank(kept[i])]

\* C4: the returned sequence is ordered by ranking_score non-increasing and
\* the element at position i (1-based) has rank i, so the ranks are exactly
\* 1..n with no gaps and no repeats.
C4_RankedDescending ==
    pc = "done" =>
        /\ Len(ranked_stocks) = Len(analysis_results)
        /\ \A i \in 1..Len(ranked_stocks) : ranked_stocks[i].rank = i
        /\ \A i \in 1..(Len(ranked_stocks) - 1) :
               ranked_stocks[i].ranking_score >= ranked_stocks[i + 1].ranking_score
        /\ {ranked_stocks[i].rank : i \in 1..Len(ranked_stocks)}
               = 1..Len(analysis_results)

\* A batch given in ascending score order comes back reversed, ranked 1..3.
C4_Witness ==
    /\ pc = "done"
    /\ Len(ranked_stocks) = 3
    /\ analysis_results[1].ranking_score < analysis_results[3].ranking_score
    /\ ranked_stocks[1].ranking_score > ranked_stocks[3].ranking_score
    /\ ranked_stocks[3].rank = 3

\* C5: rank_stocks is stable: results with the same ranking_score come out
\* in the order in which they went in (so the earlier one gets the smaller
\* rank).
C5_RankStable ==
    pc = "done" =>
        /\ \A i \in 1..Len(analysis_results) :
               WithScore(ranked_stocks, analysis_results[i].ranking_score)
                   = WithScore(analysis_results, analysis_results[i].ranking_score)
        /\ \A i \in 1..Len(analysis_results) : \A j \in (i + 1)..Len(analysis_results) :
               analysis_results[i].ranking_score = analysis_results[j].ranking_score
                   => analysis_results[i].rank < analysis_results[j].rank

\* Two different results tie behind a better one that was given last.
C5_Witness ==
    /\ pc = "done"
    /\ Len(analysis_results) = 3
    /\ analysis_results[1].ranking_score = analysis_results[2].ranking_score
    /\ StripRank(analysis_results[1]) # StripRank(analysis_results[2])
    /\ analysis_results[3].ranking_score > analysis_results[1].ranking_score
    /\ StripRank(ranked_stocks[2]) = StripRank(analysis_results[1])
    /\ StripRank(ranked_stocks[3]) = StripRank(analysis_results[2])

\* C22: rank_stocks returns a permutation of its input: as many results,
\* each input result exactly once, and for every result, in the returned
\* list and in the caller's own list, every field but rank is as it was
\* given; rank is added or overwritten.
C22_RankPermutesAndKeepsFields ==
    [][(pc = "call" /\ pc' = "done") =>
          /\ Len(ranked_stocks') = Len(analysis_results)
          /\ \E p \in Permutations(1..Len(analysis_results)) :
                 \A k \in 1..Len(analysis_results) :
                     /\ StripRank(ranked_stocks'[k]) = StripRank(analysis_results[p[k]])
                     /\ ranked_stocks'[k] = analysis_results'[p[k]]
          /\ Len(analysis_results') = Len(analysis_results)
          /\ \A k \in 1..Len(analysis_results) :
                 /\ StripRank(analysis_results'[k]) = StripRank(analysis_results[k])
                 /\ DOMAIN analysis_results'[k]
                        = DOMAIN analysis_results[k] \cup {"rank"}]_vars

\* Two results come back in the opposite order, the first with a rising
\* MA50 and all its metrics and details.
C22_Witness ==
    /\ pc = "done"
    /\ Len(ranked_stocks) = 2
    /\ ranked_stocks[1] = analysis_results[2]
    /\ ranked_stocks[2] = analysis_results[1]
    /\ ranked_stocks[1].ma50_rising
    /\ ranked_stocks[1].revenue_growth_4q = Some(10 * Scale)
    /\ ranked_stocks[1].technical_details.ma_50 = Some(100 * Scale)

----------------------------------------------------------------------------
(* Specification of calculate_revenue_growth on sampled sequences          *)

GrowthInit ==
    /\ pc = "call"
    /\ fundamental_data \in SeqsUpTo(GrowthRecords, MaxQuarters)
    /\ revenue_growth = None
    /\ technical_data = <<>>
    /\ current_price = None
    /\ ebit_analysis = None
    /\ technical_analysis = None
    /\ ranking_score = None
    /\ analysis = None
    /\ analysis_results = <<>>
    /\ ranked_stocks = None
    /\ RunIdle
    /\ quarterly_financials = <<>>

call_calculate_revenue_growth ==
    /\ pc = "call"
    /\ revenue_growth' = calculate_revenue_growth(fundamental_data)
    /\ pc' = "done"
    /\ UNCHANGED <<fundamental_data, technical_data, current_price,
                   ebit_analysis, technical_analysis, ranking_score, analysis,
                   analysis_results, ranked_stocks,
                   RunVars>>

GrowthNext == call_calculate_revenue_growth

SpecGrowth == GrowthInit /\ [][GrowthNext]_vars

\* The contract's reading of "most recent": by (year, quarter), and between
\* two records of the same quarter the one given first.
QuarterOf(d) == <<d.year, d.quarter>>

MoreRecent(fd, i, j) ==
    \/ LexGT(QuarterOf(fd[i]), QuarterOf(fd[j]))
    \/ QuarterOf(fd[i]) = QuarterOf(fd[j]) /\ i < j

WithRevenue(fd) == {i \in 1..Len(fd) : fd[i].revenue # None}

\* The revenue of the n-th most recent record that has one.
NthRevenue(fd, n) ==
    LET i == CHOOSE k \in WithRevenue(fd) :
                 Cardinality({j \in WithRevenue(fd) : MoreRecent(fd, j, k)}) = n - 1
    IN  Val(fd[i].revenue)

DistinctQuarters(fd) ==
    \A i \in 1..Len(fd) : \A j \in 1..Len(fd) :
        i # j => QuarterOf(fd[i]) # QuarterOf(fd[j])

Reorderings(fd) ==
    {[i \in 1..Len(fd) |-> fd[perm[i]]] : perm \in Permutations(1..Len(fd))}

\* C6: a sequence in which fewer than 2 records have a revenue (the empty
\* and the one-record sequence included) has no revenue growth.
C6_FewRevenuesAbsent ==
    (pc = "done" /\ Cardinality(WithRevenue(fundamental_data)) < 2)
        => revenue_growth = None

\* Three records of which only one has a revenue.
C6_Witness ==
    /\ pc = "done"
    /\ Len(fundamental_data) = 3
    /\ Cardinality(WithRevenue(fundamental_data)) = 1
    /\ revenue_growth = None

\* C7: when the previous-quarter revenue (the second most recent present
\* revenue) is zero or negative, the revenue growth is absent.
C7_NonPositivePreviousAbsent ==
    (/\ pc = "done"
     /\ Cardinality(WithRevenue(fundamental_data)) >= 2
     /\ NthRevenue(fundamental_data, 2) <= 0)
        => revenue_growth = None

\* A positive current revenue over a negative previous one.
C7_Witness ==
    /\ pc = "done"
    /\ Cardinality(WithRevenue(fundamental_data)) >= 2
    /\ NthRevenue(fundamental_data, 1) > 0
    /\ NthRevenue(fundamental_data, 2) < 0
    /\ revenue_growth = None

\* C8 as stated: for every sequence and every reordering of it the result is
\* the same, and it is exactly (current - previous) / previous * 100.
C8_ExactGrowthInAnyOrder ==
    pc = "done" =>
        /\ \A g \in Reorderings(fundamental_data) :
               calculate_revenue_growth(g) = revenue_growth
        /\ (/\ Cardinality(WithRevenue(fundamental_data)) >= 2
            /\ NthRevenue(fundamental_data, 2) > 0)
           => /\ NotNone(revenue_growth)
              /\ Val(revenue_growth) * NthRevenue(fundamental_data, 2)
                     = (NthRevenue(fundamental_data, 1)
                            - NthRevenue(fundamental_data, 2)) * 100 * Scale

\* C8 (amended): for every sequence whose records have pairwise distinct
\* (year, quarter) and every reordering of it the result is the same:
\* (current - previous) / previous * 100 rounded to two decimals, current
\* and previous being the revenues of the two most recent records that have
\* one (a record without revenue is skipped).
C8_RoundedGrowthInAnyOrder ==
    (pc = "done" /\ DistinctQuarters(fundamental_data)) =>
        /\ \A g \in Reorderings(fundamental_data) :
               calculate_revenue_growth(g) = revenue_growth
        /\ (/\ Cardinality(WithRevenue(fundamental_data)) >= 2
            /\ NthRevenue(fundamental_data, 2) > 0)
           => /\ NotNone(revenue_growth)
              /\ 2 * Abs(Val(revenue_growth) * NthRevenue(fundamental_data, 2)
                         - (NthRevenue(fundamental_data, 1)
                                - NthRevenue(fundamental_data, 2)) * 100 * Scale)
                     <= NthRevenue(fundamental_data, 2)

\* Oldest record first, and the record between the two revenues has none:
\* 4 over 3 is 33.33 percent.
C8_Witness ==
    /\ pc = "done"
    /\ Len(fundamental_data) = 3
    /\ fundamental_data[1] = [year |-> 2023, quarter |-> 4,
                              revenue |-> Some(3), ebit_margin |-> None]
    /\ fundamental_data[2] = [year |-> 2024, quarter |-> 2,
                              revenue |-> Some(4), ebit_margin |-> None]
    /\ fundamental_data[3] = [year |-> 2024, quarter |-> 1,
                              revenue |-> None, ebit_margin |-> None]
    /\ revenue_growth = Some(3333)

----------------------------------------------------------------------------
(* Specification of analyze_ebit_margin_trend on sampled sequences         *)

MarginInit ==
    /\ pc = "call"
    /\ fundamental_data \in SeqsUpTo(MarginRecords, MaxQuarters)
    /\ ebit_analysis = None
    /\ revenue_growth = None
    /\ technical_data = <<>>
    /\ current_price = None
    /\ technical_analysis = None
    /\ ranking_score = None
    /\ analysis = None
    /\ analysis_results = <<>>
    /\ ranked_stocks = None
    /\ RunIdle
    /\ quarterly_financials = <<>>

call_analyze_ebit_margin_trend ==
    /\ pc = "call"
    /\ ebit_analysis' = analyze_ebit_margin_trend(fundamental_data)
    /\ pc' = "done"
    /\ UNCHANGED <<fundamental_data, technical_data, current_price,
                   revenue_growth, technical_analysis, ranking_score, analysis,
                   analysis_results, ranked_stocks,
                   RunVars>>

MarginNext == call_analyze_ebit_margin_trend

SpecMargin == MarginInit /\ [][MarginNext]_vars

WithMargin(fd) == {i \in 1..Len(fd) : fd[i].ebit_margin # None}

RECURSIVE MarginTotal(_, _)
MarginTotal(fd, S) ==
    IF S = {} THEN 0
    ELSE LET i == CHOOSE k \in S : TRUE
         IN  Val(fd[i].ebit_margin) + MarginTotal(fd, S \ {i})

\* C9 as stated: absent when no record has a margin, and otherwise exactly
\* the arithmetic mean of the present margins.
C9_ExactMeanOfPresentMargins ==
    pc = "done" =>
        IF WithMargin(fundamental_data) = {}
        THEN ebit_analysis.avg_margin = None
        ELSE /\ NotNone(ebit_analysis.avg_margin)
             /\ Val(ebit_analysis.avg_margin) * Cardinality(WithMargin(fundamental_data))
                    = MarginTotal(fundamental_data, WithMargin(fundamental_data))

\* C9 (amended): absent when no record has a margin, and otherwise the
\* arithmetic mean of the present margins rounded to two decimals (absent
\* margins are left out of both the sum and the count).
C9_RoundedMeanOfPresentMargins ==
    pc = "done" =>
        IF WithMargin(fundamental_data) = {}
        THEN ebit_analysis.avg_margin = None
        ELSE /\ NotNone(ebit_analysis.avg_margin)
             /\ 2 * Abs(Val(ebit_analysis.avg_margin)
                            * Cardinality(WithMargin(fundamental_data))
                        - MarginTotal(fundamental_data, WithMargin(fundamental_data)))
                    <= Cardinality(WithMargin(fundamental_data))

\* Margins 10 and 20 around a record without margin average 15, not 10.
C9_Witness ==
    /\ pc = "done"
    /\ Len(fundamental_data) = 3
    /\ fundamental_data[1].ebit_margin = Some(10 * Scale)
    /\ fundamental_data[2].ebit_margin = None
    /\ fundamental_data[3].ebit_margin = Some(20 * Scale)
    /\ ebit_analysis.avg_margin = Some(15 * Scale)

----------------------------------------------------------------------------
(* Specification of analyze_technical_indicators on sampled sequences      *)

TechInit ==
    /\ pc = "call"
    /\ technical_data \in TechInputs(MaxPoints)
    /\ current_price \in PriceInputs
    /\ technical_analysis = None
    /\ fundamental_data = <<>>
    /\ revenue_growth = None
    /\ ebit_analysis = None
    /\ ranking_score = None
    /\ analysis = None
    /\ analysis_results = <<>>
    /\ ranked_stocks = None
    /\ RunIdle
    /\ quarterly_financials = <<>>

call_analyze_technical_indicators ==
    /\ pc = "call"
    /\ technical_analysis' =
           analyze_technical_indicators(technical_data, current_price)
    /\ pc' = "done"
    /\ UNCHANGED <<fundamental_data, technical_data, current_price,
                   revenue_growth, ebit_analysis, ranking_score, analysis,
                   analysis_results, ranked_stocks,
                   RunVars>>

TechNext == call_analyze_technical_indicators

SpecTech == TechInit /\ [][TechNext]_vars

\* The MA50 of the last row is present and strictly above the present MA50
\* of the 10th row from the end.
Ma50AboveTenthFromLast(td) ==
    /\ Len(td) >= 10
    /\ td[Len(td)].MA_50 # None
    /\ td[Len(td) - 9].MA_50 # None
    /\ Val(td[Len(td)].MA_50) > Val(td[Len(td) - 9].MA_50)

\* C10 as stated: ma50_rising is true iff the sequence has at least 10
\* points, both MA50 values are present and the latest is strictly greater.
C10_RisingIffMa50Above ==
    pc = "done" =>
        (technical_analysis.ma50_rising <=> Ma50AboveTenthFromLast(technical_data))

\* C10 (amended): ma50_rising is true iff the current price is present, the
\* sequence has at least 10 points, both MA50 values are present and the
\* latest is strictly greater; so it is false for fewer than 10 points and
\* for equal values.
C10_RisingIffPricedAndMa50Above ==
    pc = "done" =>
        (technical_analysis.ma50_rising
            <=> (current_price # None /\ Ma50AboveTenthFromLast(technical_data)))

\* Eleven rows whose MA50 rose by less than a cent between the 10th row
\* from the end and the last, while the first row has no MA50.
C10_Witness ==
    /\ pc = "done"
    /\ Len(technical_data) = 11
    /\ technical_data[1].MA_50 = None
    /\ technical_data[2].MA_50 = Some(100 * Mills)
    /\ technical_data[11].MA_50 = Some(100 * Mills + 4)
    /\ current_price # None
    /\ technical_analysis.ma50_rising
    /\ technical_analysis.ma_50 = Some(100 * Scale)

\* C11: when the price sequence is empty or the current price is absent, the
\* three moving averages and the three price deviations are all absent and
\* ma50Rising is false, whatever the other input is.
C11_NoDataNoIndicators ==
    (pc = "done" /\ (technical_data = <<>> \/ current_price = None)) =>
        /\ technical_analysis.ma_20 = None
        /\ technical_analysis.ma_50 = None
        /\ technical_analysis.ma_200 = None
        /\ technical_analysis.price_vs_ma20 = None
        /\ technical_analysis.price_vs_ma50 = None
        /\ technical_analysis.price_vs_ma200 = None
        /\ technical_analysis.ma50_rising = FALSE

\* Eleven rows with every average present and a rising MA50, analysed
\* without a current price.
C11_Witness ==
    /\ pc = "done"
    /\ current_price = None
    /\ Len(technical_data) = 11
    /\ technical_data[11].MA_20 # None
    /\ Ma50AboveTenthFromLast(technical_data)
    /\ technical_analysis.ma_50 = None
    /\ ~technical_analysis.ma50_rising

\* v hundredths is the rational n / d to two decimals: within half a
\* hundredth of it.
ToTwoDecimals(v, n, d) == 2 * Abs(v * d - n * Scale) <= Abs(d)

\* C12 as stated: with a non-empty sequence and a present current price,
\* each priceVsMaN is absent exactly when maN is absent, and otherwise is
\* the number (currentPrice - maN) / maN * 100 (to two decimals); a price
\* equal to the average gives the number 0, not absent.
C12_DeviationPresentWithAverage ==
    (pc = "done" /\ technical_data # <<>> /\ current_price # None) =>
        LET latest == technical_data[Len(technical_data)]
            price == Val(current_price)
            Agrees(ma, vs) ==
                IF ma = None THEN vs = None
                ELSE /\ vs # None
                     /\ Len(vs) = 1
                     /\ ToTwoDecimals(Val(vs), (price - Val(ma)) * 100, Val(ma))
        IN  /\ Agrees(latest.MA_20, technical_analysis.price_vs_ma20)
            /\ Agrees(latest.MA_50, technical_analysis.price_vs_ma50)
            /\ Agrees(latest.MA_200, technical_analysis.price_vs_ma200)

----------------------------------------------------------------------------
(* display_analysis_results and the main content area (src/app.py)         *)

\* f"{x:.1f}" if pd.notna(x) else "N/A": hundredths to tenths, an infinite
\* value as it is.
format_1f(x) ==
    IF x = None \/ x = <<0, 0>> THEN NotAvailable
    ELSE IF Len(x) = 2 THEN x
    ELSE IF Len(x) = 1 /\ ~IsTie(Val(x), Scale \div 10)
         THEN Some(RoundDiv(Val(x), Scale \div 10))
    ELSE Some(FDecimals(percent_float(x), 1))

\* "check" if row.get('ma50_rising') else "cross": a row without the column
\* gives None, which is falsy.
ma50_rising_mark(row) ==
    IF "ma50_rising" \in DOMAIN row /\ row.ma50_rising = TRUE
    THEN "check" ELSE "cross"

\* The ranking table of lines 73-100, one line per stored result in the
\* order of get_all_analysis_results.
display_table(results_df) ==
    [k \in 1..Len(results_df) |->
        [rank |-> k,
         symbol |-> results_df[k].symbol,
         revenue_growth |-> format_1f(results_df[k].revenue_growth_4q),
         ebit_margin |-> format_1f(results_df[k].avg_ebit_margin),
         ma50_rising |-> ma50_rising_mark(results_df[k]),
         score |-> Some(results_df[k].ranking_score * 10),
         recommendation |-> results_df[k].recommendation]]

\* display_analysis_results, lines 60-100: a notice without stored results,
\* else the results with their ranking table.  Without the table the query
\* of line 62 raises pandas' DatabaseError, which nothing catches: the script
\* run ends and Streamlit shows the exception.
display_analysis_results(tables) ==
    IF "analysis_results" \notin DOMAIN tables
    THEN [shown |-> "error", table |-> <<>>]
    ELSE LET results_df == get_all_analysis_results(tables)
         IN  IF results_df = <<>> THEN [shown |-> "no results", table |-> <<>>]
             ELSE [shown |-> "results", table |-> display_table(results_df)]

\* A content area that fell back to the instructions while no result is
\* stored; main looks at the flag only.
main_content_when_stored(state, tables) ==
    IF state.analysis_complete /\ table_rows(tables, "analysis_results") # <<>>
    THEN display_analysis_results(tables)
    ELSE [shown |-> "instructions", table |-> <<>>]

\* main, lines 338-343: the results once a run has completed, else the
\* instructions.
main_content(state, tables) ==
    IF state.analysis_complete THEN display_analysis_results(tables)
    ELSE [shown |-> "instructions", table |-> <<>>]

----------------------------------------------------------------------------
(* main and run_analysis (src/app.py) as a state machine.  A step is what   *)
(* a script run does from one commit to the file, one request to the       *)
(* provider or one call of streamlit at which it can be ended, to the      *)
(* next.                                                                   *)

\* The "for i, symbol in enumerate(symbols)" loops end after the last item.
last_iteration_early(index, items) == index + 1 >= Len(items)

last_iteration(index, items) == index >= Len(items)

\* collected_data[symbol] = value.
dict_set(dict, key, value) ==
    [k \in DOMAIN dict \cup {key} |-> IF k = key THEN value ELSE dict[k]]

\* Variant that leaves out a symbol without fundamental data.
collect_into_with_fundamentals(collected, symbol, fundamental, technical, price) ==
    IF fundamental # <<>>
    THEN dict_set(collected, symbol,
                  [fundamental |-> fundamental, technical |-> technical,
                   current_price |-> price])
    ELSE collected

\* A collection that kept the price frame of a symbol without fundamental
\* data; run_analysis does not.
collect_into_keeping_frame(collected, symbol, fundamental, technical, price) ==
    dict_set(collected, symbol,
             [fundamental |-> fundamental, technical |-> technical,
              current_price |-> price])

\* Lines 199-212: a symbol without fundamental data is kept with an empty
\* list and an empty frame in place of its price data.
collect_into(collected, symbol, fundamental, technical, price) ==
    IF fundamental # <<>>
    THEN dict_set(collected, symbol,
                  [fundamental |-> fundamental, technical |-> technical,
                   current_price |-> price])
    ELSE dict_set(collected, symbol,
                  [fundamental |-> <<>>, technical |-> <<>>,
                   current_price |-> price])

RunInit ==
    /\ pc = "idle"
    /\ fundamental_data = <<>>
    /\ technical_data = <<>>
    /\ current_price = None
    /\ revenue_growth = None
    /\ ebit_analysis = None
    /\ technical_analysis = None
    /\ ranking_score = None
    /\ analysis = None
    /\ analysis_results = <<>>
    /\ ranked_stocks = None
    /\ NewSession
    /\ db \in {init_database(file) : file \in FileInputs}
    /\ quarterly_financials = <<>>

\* The places of a script run.  Of clear_database the place is the
\* statement that runs next.
Clearing == {ClearStatements[k].sql : k \in 1..Len(ClearStatements)}

\* Every table of the schema exists: always, except while clear_database is
\* between its first DROP and its last CREATE, and in the rest of a script
\* run whose clear_database was ended there by an error.
TablesExist == DOMAIN db = {InitStatements[k].table : k \in 1..Len(InitStatements)}

\* main, lines 264-331, with the Analyze button pressed: the components are
\* constructed, which runs init_database, and the submitted text is
\* validated; without a valid symbol main goes on to its content area, else
\* to run_analysis.  Every press starts a script run, which drops the text
\* shown for the language model.
press(texts, runs) ==
    /\ pc = "idle"
    /\ db' = init_database(db)
    /\ \E text \in texts :
           LET valid == valid_symbols[text]
           IN  /\ symbols_input' = text
               /\ analysis_summary' = <<>>
               /\ IF valid = <<>>
                  THEN /\ pc' = "content"
                       /\ UNCHANGED symbols
                  ELSE /\ now < runs
                       /\ symbols' = valid
                       /\ pc' = "announce"
    /\ UNCHANGED <<page, idx, collected_data, now, quarterly_financials,
                   fundamental_data, technical_data, current_price,
                   revenue_growth, ebit_analysis, technical_analysis,
                   ranking_score, analysis, analysis_results, ranked_stocks,
                   session_state>>

\* The Analyze button with any of the texts.
press_analyze == press(SymbolsInputs, MaxRuns)

\* Line 332: st.info announces the run; run_analysis is entered and stands
\* at the spinner of line 166, before the first statement of clear_database.
announce_run ==
    /\ pc = "announce"
    /\ page' = [shown |-> "running", table |-> <<>>]
    /\ pc' = ClearStatements[1].sql
    /\ UNCHANGED <<symbols_input, symbols, idx, collected_data, db, now,
                   analysis_summary, quarterly_financials, fundamental_data,
                   technical_data, current_price, revenue_growth, ebit_analysis,
                   technical_analysis, ranking_score, analysis, analysis_results,
                   ranked_stocks, session_state>>

\* clear_database, line 167, one statement at a time.  A statement runs, or
\* it raises sqlite3.Error (the file is locked by another connection, or
\* cannot be written): lines 281-284 catch the error, the statements that
\* have run stay committed and the others are skipped.  After the last
\* statement, or the error, run_analysis goes on to the head of its
\* collection loop (lines 169-180).
clear_database ==
    /\ \E k \in 1..Len(ClearStatements), raised \in BOOLEAN :
           /\ pc = ClearStatements[k].sql
           /\ db' = IF raised THEN db ELSE execute(ClearStatements[k], db)
           /\ IF ~raised /\ k < Len(ClearStatements)
              THEN /\ pc' = ClearStatements[k + 1].sql
                   /\ UNCHANGED <<now, collected_data, idx>>
              ELSE /\ pc' = "collect"
                   /\ now' = now + 1
                   /\ collected_data' = <<>>
                   /\ idx' = 1
    /\ UNCHANGED <<page, symbols_input, symbols, analysis_summary,
                   quarterly_financials, fundamental_data, technical_data,
                   current_price, revenue_growth, ebit_analysis,
                   technical_analysis, ranking_score, analysis, analysis_results,
                   ranked_stocks, session_state>>

\* The collection loop, lines 181-185: the provider names the company and
\* the stock is written.
collect_symbol ==
    /\ pc = "collect"
    /\ \E company_name \in CompanyNames(symbols[idx]) :
           db' = add_stock(db, symbols[idx], company_name, now)
    /\ pc' = "fetch"
    /\ UNCHANGED <<page, symbols_input, symbols, idx, collected_data, now,
                   analysis_summary, quarterly_financials, fundamental_data,
                   technical_data, current_price, revenue_growth, ebit_analysis,
                   technical_analysis, ranking_score, analysis, analysis_results,
                   ranked_stocks, session_state>>

\* Line 188: the provider's statements, whatever they are, become the
\* fundamental records.
fetch_fundamental_data ==
    /\ pc = "fetch"
    /\ \E statements \in StatementInputs :
           fundamental_data' = get_fundamental_data(statements)
    /\ pc' = "frame"
    /\ UNCHANGED <<page, symbols_input, symbols, idx, collected_data, db, now,
                   analysis_summary, quarterly_financials, technical_data,
                   current_price, revenue_growth, ebit_analysis,
                   technical_analysis, ranking_score, analysis, analysis_results,
                   ranked_stocks, session_state>>

\* Line 191: the provider's price frame.
fetch_daily_price_data ==
    /\ pc = "frame"
    /\ technical_data' \in RunTechInputs
    /\ pc' = "price"
    /\ UNCHANGED <<page, symbols_input, symbols, idx, collected_data, db, now,
                   analysis_summary, quarterly_financials, fundamental_data,
                   current_price, revenue_growth, ebit_analysis,
                   technical_analysis, ranking_score, analysis, analysis_results,
                   ranked_stocks, session_state>>

\* Lines 194-196: the provider's current price, and the test for
\* fundamental records: with records run_analysis goes on to store them,
\* without to its warning of line 205.
fetch_current_price ==
    /\ pc = "price"
    /\ current_price' \in RunPriceInputs
    /\ pc' = IF fundamental_data # <<>> THEN "store" ELSE "warn"
    /\ UNCHANGED <<page, symbols_input, symbols, idx, collected_data, db, now,
                   analysis_summary, quarterly_financials, fundamental_data,
                   technical_data, revenue_growth, ebit_analysis,
                   technical_analysis, ranking_score, analysis, analysis_results,
                   ranked_stocks, session_state>>

\* Line 197: the fundamental records are written.
store_fundamentals ==
    /\ pc = "store"
    /\ db' = store_fundamental_data(db, symbols[idx], fundamental_data, now)
    /\ pc' = "keep"
    /\ UNCHANGED <<page, symbols_input, symbols, idx, collected_data, now,
                   analysis_summary, quarterly_financials, fundamental_data,
                   technical_data, current_price, revenue_growth, ebit_analysis,
                   technical_analysis, ranking_score, analysis, analysis_results,
                   ranked_stocks, session_state>>

\* Lines 198-202, after the records are written, or lines 205-210, after
\* the warning: the symbol is entered in collected_data, and run_analysis
\* stands at st.success of line 203 or at the progress bar of line 213.
keep_collected ==
    /\ pc \in {"keep", "warn"}
    /\ collected_data' = collect_into(collected_data, symbols[idx], fundamental_data,
                                      technical_data, current_price)
    /\ pc' = "prices"
    /\ UNCHANGED <<page, symbols_input, symbols, idx, db, now, analysis_summary,
                   quarterly_financials, fundamental_data, technical_data,
                   current_price, revenue_growth, ebit_analysis,
                   technical_analysis, ranking_score, analysis, analysis_results,
                   ranked_stocks, session_state>>

\* Lines 203 to 223: the price frame is stored, whether or not it has every
\* column the table needs, and the loop goes on.
store_prices ==
    /\ pc = "prices"
    /\ \E has_columns \in BOOLEAN :
           db' = IF technical_data # <<>>
                 THEN store_technical_data(db, symbols[idx], technical_data,
                                           has_columns, now)
                 ELSE db
    /\ IF last_iteration(idx, symbols)
       THEN idx' = 1 /\ pc' = "analyze"
       ELSE idx' = idx + 1 /\ pc' = "collect"
    /\ UNCHANGED <<page, symbols_input, symbols, collected_data, now,
                   analysis_summary, quarterly_financials, fundamental_data,
                   technical_data, current_price, revenue_growth, ebit_analysis,
                   technical_analysis, ranking_score, analysis, analysis_results,
                   ranked_stocks, session_state>>

\* One iteration of the analysis loop, lines 230-248.
analyze_symbol ==
    /\ pc = "analyze"
    /\ LET symbol == symbols[idx]
       IN  IF symbol \in DOMAIN collected_data
           THEN LET data == collected_data[symbol]
                    result == analyze_stock(symbol, data.fundamental,
                                            data.technical, data.current_price)
                IN  /\ analysis_results' = Append(analysis_results, result)
                    /\ db' = store_analysis_result(db, symbol, result, now)
           ELSE UNCHANGED <<analysis_results, db>>
    /\ IF last_iteration(idx, symbols)
       THEN idx' = 0 /\ pc' = "rank"
       ELSE idx' = idx + 1 /\ pc' = pc
    /\ UNCHANGED <<page, quarterly_financials, fundamental_data, technical_data, current_price,
                   revenue_growth, ebit_analysis, technical_analysis,
                   ranking_score, analysis, ranked_stocks, symbols_input,
                   symbols, collected_data, session_state, now,
                   analysis_summary>>

\* The ranking phase, lines 250-254; rank_stocks numbers the results of
\* analysis_results themselves.
rank_batch ==
    /\ pc = "rank"
    /\ IF analysis_results # <<>>
       THEN /\ ranked_stocks' = rank_stocks(analysis_results)
            /\ analysis_results' = ranked_in_place(analysis_results)
            /\ session_state' =
                   [session_state EXCEPT
                       !.analyzed_stocks = rank_stocks(analysis_results)]
       ELSE UNCHANGED <<ranked_stocks, analysis_results, session_state>>
    /\ pc' = "ranked"
    /\ UNCHANGED <<page, quarterly_financials, fundamental_data, technical_data, current_price,
                   revenue_growth, ebit_analysis, technical_analysis,
                   ranking_score, analysis, symbols_input, symbols, idx,
                   collected_data, db, now, analysis_summary>>

\* Lines 256-260 and the return to main: the flag is set and the locals of
\* run_analysis are gone.
complete_analysis ==
    /\ pc = "ranked"
    /\ session_state' = [session_state EXCEPT !.analysis_complete = TRUE]
    /\ collected_data' = <<>>
    /\ analysis_results' = <<>>
    /\ ranked_stocks' = None
    /\ fundamental_data' = <<>>
    /\ technical_data' = <<>>
    /\ current_price' = None
    /\ pc' = "content"
    /\ UNCHANGED <<page, quarterly_financials, revenue_growth, ebit_analysis,
                   technical_analysis, ranking_score, analysis, symbols_input,
                   symbols, idx, db, now, analysis_summary>>

\* main, lines 338-343, at the end of a script run of the Analyze button or
\* of a script run without a button: the content area is drawn.
show_content ==
    /\ pc = "content"
    /\ page' = main_content(session_state, db)
    /\ pc' = "idle"
    /\ UNCHANGED <<quarterly_financials, fundamental_data, technical_data,
                   current_price, revenue_growth, ebit_analysis,
                   technical_analysis, ranking_score, analysis,
                   analysis_results, ranked_stocks, symbols_input, symbols, idx,
                   collected_data, db, session_state, now, analysis_summary>>

\* The script run of the button 'Generate AI Recommendation', lines 264-340
\* and 60-157: the components are constructed, the content area is drawn
\* again and the stored results become the text for the language model.
\* The button is on the page only with the ranking drawn, and then the file
\* has its four tables (ButtonOnlyWithTables), so init_database commits
\* nothing and a script run ended before the content area changes nothing.
generate_recommendation ==
    /\ pc = "idle"
    /\ session_state.analysis_complete
    /\ page.shown = "results"
    /\ db' = init_database(db)
    /\ page' = main_content(session_state, db')
    /\ LET stocks_data == get_all_analysis_results(db')
       IN  /\ stocks_data # <<>>
           /\ analysis_summary' = prepare_analysis_summary(stocks_data)
    /\ UNCHANGED <<pc, quarterly_financials, fundamental_data, technical_data, current_price,
                   revenue_growth, ebit_analysis, technical_analysis,
                   ranking_score, analysis, analysis_results, ranked_stocks,
                   symbols_input, symbols, idx, collected_data,
                   session_state, now>>

\* The places at which a script run stands at a call of streamlit: lines
\* 332, 166, 181, 205, 203 to 223, 226 to 248, 251, 257 to 259, and 330 or
\* the first call of the content area.
StopPoints ==
    {"announce", ClearStatements[1].sql, "collect", "warn", "prices", "analyze",
     "rank", "ranked", "content"}

\* Streamlit ends a script run at a call of streamlit when the user stops
\* it, presses another widget or closes the page: the script does not go
\* on, its locals are gone, and the tables, the session state and the page
\* stay as they are.
stop_run ==
    /\ pc \in StopPoints
    /\ pc' = "idle"
    /\ idx' = 0
    /\ collected_data' = <<>>
    /\ analysis_results' = <<>>
    /\ ranked_stocks' = None
    /\ fundamental_data' = <<>>
    /\ technical_data' = <<>>
    /\ current_price' = None
    /\ UNCHANGED <<page, quarterly_financials, revenue_growth, ebit_analysis,
                   technical_analysis, ranking_score, analysis, symbols_input,
                   symbols, db, session_state, now, analysis_summary>>

\* A script run without a button (any other widget of the session), lines
\* 264-326: the components are constructed, which runs init_database and
\* commits the tables that the file lacks, and main passes the calls of its
\* sidebar, at which Streamlit may end the script run with the page as it
\* was; the content area is drawn by the step that follows.
rerun ==
    /\ pc = "idle"
    /\ db' = init_database(db)
    /\ analysis_summary' = <<>>
    /\ pc' = "content"
    /\ UNCHANGED <<page, quarterly_financials, fundamental_data, technical_data,
                   current_price, revenue_growth, ebit_analysis,
                   technical_analysis, ranking_score, analysis,
                   analysis_results, ranked_stocks, symbols_input, symbols,
                   idx, collected_data, session_state, now>>

RunNext ==
    \/ press_analyze
    \/ announce_run
    \/ clear_database
    \/ collect_symbol
    \/ fetch_fundamental_data
    \/ fetch_daily_price_data
    \/ fetch_current_price
    \/ store_fundamentals
    \/ keep_collected
    \/ store_prices
    \/ analyze_symbol
    \/ rank_batch
    \/ complete_analysis
    \/ show_content
    \/ generate_recommendation
    \/ rerun

SpecRun == RunInit /\ [][RunNext]_vars

\* The values of a sequence.
Range(s) == {s[k] : k \in 1..Len(s)}

\* While the ranking is on the page and no script run is under way, the file
\* has the four tables of the schema.
ButtonOnlyWithTables == (pc = "idle" /\ page.shown = "results") => TablesExist

RunTypeOK ==
    /\ pc \in {"idle", "announce", "collect", "fetch", "frame", "price", "store",
              "keep", "warn", "prices", "analyze", "rank", "ranked", "content"}
              \cup Clearing
    /\ now \in 0..MaxSessionRuns
    /\ idx \in 0..Len(symbols)

\* The three deviations of a result.
Deviations(result) ==
    {result.price_vs_ma20, result.price_vs_ma50, result.price_vs_ma200}

\* inf, -inf and nan.
NotFinite == {<<1, 0>>, <<-1, 0>>, <<0, 0>>}

\* An absent, zero or negative denominator.
NotPositive(o) == o = None \/ Val(o) <= 0

\* C13 as stated: every division of the analysis yields absent when its
\* denominator is absent, zero or negative: the EBIT margin of a collected
\* quarter by its revenue, the revenue growth by the previous revenue, each
\* price deviation by its moving average; and no deviation is infinite or
\* NaN.
C13_DivisionsGuarded ==
    /\ \A k \in 1..Len(table_rows(db, "fundamental_data")) :
           NotPositive(db.fundamental_data[k].revenue)
               => db.fundamental_data[k].ebit_margin = None
    /\ \A k \in 1..Len(analysis_results) :
           LET result == analysis_results[k]
               data == collected_data[result.symbol]
               latest == data.technical[Len(data.technical)]
           IN  /\ (/\ Cardinality(WithRevenue(data.fundamental)) >= 2
                   /\ NthRevenue(data.fundamental, 2) <= 0)
                      => result.revenue_growth_4q = None
               /\ Deviations(result) \cap NotFinite = {}
               /\ (data.technical # <<>> /\ data.current_price # None) =>
                      /\ NotPositive(latest.MA_20) => result.price_vs_ma20 = None
                      /\ NotPositive(latest.MA_50) => result.price_vs_ma50 = None
                      /\ NotPositive(latest.MA_200) => result.price_vs_ma200 = None

\* C15: in every run of run_analysis, the analysis of a symbol starts only
\* after the data of every symbol of the batch has been collected, and
\* rank_stocks is reached, and a rank assigned, only when the batch holds
\* the result of every symbol.
C15_PhasesInOrder ==
    /\ (pc = "analyze" \/ analysis_results # <<>>) =>
           /\ Range(symbols) \subseteq DOMAIN collected_data
           /\ "stocks" \in DOMAIN db =>
                  Range(symbols) \subseteq {db.stocks[k].symbol : k \in 1..Len(db.stocks)}
    /\ (\/ pc \in {"rank", "ranked"}
        \/ ranked_stocks # None
        \/ \E k \in 1..Len(analysis_results) : "rank" \in DOMAIN analysis_results[k]) =>
           /\ Len(analysis_results) = Len(symbols)
           /\ \A k \in 1..Len(symbols) : analysis_results[k].symbol = symbols[k]

\* Two symbols have been collected, analysed and ranked.
C15_Witness ==
    /\ pc = "ranked"
    /\ symbols = << <<"A">>, <<"B">> >>
    /\ Len(ranked_stocks) = 2
    /\ ranked_stocks[1].rank = 1
    /\ ranked_stocks[1].symbol = <<"B">>
    /\ ranked_stocks[2].rank = 2

\* The results that were stored since the clear_database of the most recent
\* run returned.
ResultsWrittenNow ==
    SelectSeq(table_rows(db, "analysis_results"), LAMBDA row : row.created_at = now)

\* The rows of every table carry the stamp of the clock (the rows of a
\* technical_data table that to_sql made carry none).
StampedNow ==
    /\ \A k \in 1..Len(table_rows(db, "stocks")) : db.stocks[k].last_updated = now
    /\ \A k \in 1..Len(table_rows(db, "fundamental_data")) :
           db.fundamental_data[k].created_at = now
    /\ \A k \in 1..Len(table_rows(db, "technical_data")) :
           db.technical_data[k].created_at \in {Some(now), None}
    /\ \A k \in 1..Len(table_rows(db, "analysis_results")) :
           db.analysis_results[k].created_at = now

\* get_all_analysis_results returns only results that the most recent run
\* stored.
ReturnsLatestOnly ==
    "analysis_results" \in DOMAIN db =>
        Len(get_all_analysis_results(db)) = Len(ResultsWrittenNow)

\* C16 as stated: after any sequence of runs of run_analysis, once the
\* clear_database of the most recent run has returned, the four tables hold
\* only rows that this run wrote, and get_all_analysis_results returns only
\* results that this run stored: what earlier runs stored, in this session
\* or in an earlier one, is gone.
C16_OnlyLatestRun ==
    (now > 0 /\ pc \notin Clearing) =>
        /\ StampedNow
        /\ ReturnsLatestOnly

\* C17 as stated: get_all_analysis_results returns at most one row per
\* symbol, whatever store_analysis_result calls were made.
C17_OneRowPerSymbol ==
    "analysis_results" \in DOMAIN db =>
    LET returned == get_all_analysis_results(db)
    IN  \A j \in 1..Len(returned) : \A k \in 1..Len(returned) :
            j # k => returned[j].symbol # returned[k].symbol

\* C18 as stated: for every submitted text, the list that run_analysis
\* passes to rank_stocks holds no two results with the same symbol.
C18_NoDuplicateInBatch ==
    pc = "rank" =>
        \A j \in 1..Len(analysis_results) : \A k \in 1..Len(analysis_results) :
            j # k => analysis_results[j].symbol # analysis_results[k].symbol

\* The technical part of a result is the all-absent, not rising record.
NoIndicators(result) ==
    /\ result.ma_20 = None
    /\ result.ma_50 = None
    /\ result.ma_200 = None
    /\ Deviations(result) = {None}
    /\ result.ma50_rising = FALSE

\* run_analysis, and analyze_stock called by itself on sampled inputs, among
\* them price frames without the moving-average columns.
BatchInit == RunInit \/ StockInit

BatchNext == RunNext \/ call_analyze_stock

SpecBatch == BatchInit /\ [][BatchNext]_vars


\* C23: in run_analysis a symbol for which no fundamental records were
\* collected is analyzed with an empty price series, whatever price frame
\* was collected for it, so its result has ma50_rising false, ranking
\* score 0 and the recommendation SELL.
C23_NoFundamentalsNoPriceSeries ==
    pc \in {"rank", "ranked"} =>
        \A k \in 1..Len(analysis_results) :
            LET result == analysis_results[k]
                data == collected_data[result.symbol]
            IN  data.fundamental = <<>> =>
                    /\ data.technical = <<>>
                    /\ result.ma50_rising = FALSE
                    /\ result.ranking_score = 0
                    /\ result.recommendation = "SELL"

\* A symbol without fundamental records whose price frame, with a rising
\* MA50 and a current price, was collected and stored in technical_data,
\* and whose result is nevertheless SELL with score 0.
C23_Witness ==
    /\ pc = "rank"
    /\ TablesExist
    /\ symbols = << <<"A">> >>
    /\ collected_data[<<"A">>].fundamental = <<>>
    /\ collected_data[<<"A">>].current_price # None
    /\ Len(db.technical_data) >= 10
    /\ \A k \in 1..Len(db.technical_data) : db.technical_data[k].symbol = <<"A">>
    /\ db.technical_data[Len(db.technical_data)].ma_50 # None
    /\ db.technical_data[Len(db.technical_data) - 9].ma_50 # None
    /\ Val(db.technical_data[Len(db.technical_data)].ma_50)
           > Val(db.technical_data[Len(db.technical_data) - 9].ma_50)
    /\ analysis_results[1].ma50_rising = FALSE
    /\ analysis_results[1].ranking_score = 0
    /\ analysis_results[1].recommendation = "SELL"

\* C24: ma50_rising does not survive persistence: no row returned by
\* get_all_analysis_results has it, so the table of
\* display_analysis_results marks every stock as not rising, including the
\* stocks whose stored score contains the 20 points of a rising MA50.
C24_Ma50RisingLostInStorage ==
    /\ "analysis_results" \in DOMAIN db =>
           \A k \in 1..Len(get_all_analysis_results(db)) :
               "ma50_rising" \notin DOMAIN get_all_analysis_results(db)[k]
    /\ page.shown = "results" =>
           /\ Len(page.table) = Len(table_rows(db, "analysis_results"))
           /\ \A k \in 1..Len(page.table) : page.table[k].ma50_rising = "cross"

\* The results of a completed run are shown: the first stock was analyzed
\* with a rising MA50, its stored and shown score contains the 20 points,
\* and its line carries the mark of a MA50 that is not rising.
C24_Witness ==
    /\ pc = "idle"
    /\ page.shown = "results"
    /\ session_state.analyzed_stocks # None
    /\ session_state.analyzed_stocks[1].ma50_rising = TRUE
    /\ session_state.analyzed_stocks[1].ranking_score >= 20
    /\ page.table[1].symbol = session_state.analyzed_stocks[1].symbol
    /\ page.table[1].score
           = Some(session_state.analyzed_stocks[1].ranking_score * 10)
    /\ page.table[1].ma50_rising = "cross"

\* C20 as stated: the revenue growth that the summary for the language
\* model shows for a stock is the quarter-over-quarter value stored for it
\* (for a stock that has one).
C20_SummaryShowsStoredGrowth ==
    analysis_summary # <<>> =>
        LET stocks_data == get_all_analysis_results(db)
        IN  \A k \in 1..Len(analysis_summary) :
                stocks_data[k].revenue_growth_4q # None =>
                    analysis_summary[k].revenue_growth
                        = stocks_data[k].revenue_growth_4q

----------------------------------------------------------------------------
(* Specification of get_fundamental_data on sampled statements             *)

\* Most statement columns that the provider lists.
MaxColumns == 5

RevenueInputs == {None, Some(0), Some(-100), Some(100)}

\* Incomes: 25 over 100 divides without a rounding error, 7 over 100 gives
\* the float 7.000000000000001.
IncomeInputs == {None, Some(0), Some(7), Some(25)}

\* The k-th most recent quarterly column, counted back from Q4 2024.
StatementColumn(k, revenue, income) ==
    [year |-> 2024 - ((k - 1) \div 4), quarter |-> 4 - ((k - 1) % 4),
     revenue |-> revenue, operating_income |-> income]

\* Statements of at most max columns: every choice of figures for up to two
\* columns, and the same figures in every column for longer ones.
CollectInputs(max) ==
    UNION {{[k \in 1..n |-> StatementColumn(k, r[k], o[k])] :
               r \in [1..n -> RevenueInputs], o \in [1..n -> IncomeInputs]} :
           n \in 0..2}
    \cup {[k \in 1..n |-> StatementColumn(k, r, o)] :
             n \in 3..max, r \in RevenueInputs, o \in IncomeInputs}

CollectInit ==
    /\ pc = "call"
    /\ quarterly_financials \in CollectInputs(MaxColumns)
    /\ fundamental_data = <<>>
    /\ technical_data = <<>>
    /\ current_price = None
    /\ revenue_growth = None
    /\ ebit_analysis = None
    /\ technical_analysis = None
    /\ ranking_score = None
    /\ analysis = None
    /\ analysis_results = <<>>
    /\ ranked_stocks = None
    /\ RunIdle

call_get_fundamental_data ==
    /\ pc = "call"
    /\ fundamental_data' = get_fundamental_data(quarterly_financials)
    /\ pc' = "done"
    /\ UNCHANGED <<technical_data, current_price, revenue_growth, ebit_analysis,
                   technical_analysis, ranking_score, analysis,
                   analysis_results, ranked_stocks, RunVars>>

CollectNext == call_get_fundamental_data

SpecCollect == CollectInit /\ [][CollectNext]_vars

\* C21 as stated: the ebit_margin of every record that get_fundamental_data
\* builds is operating_income / revenue * 100 when both figures are present
\* and the revenue is not zero, an operating income of 0 giving the margin
\* 0, and is absent otherwise.
C21_MarginWheneverRevenueNonzero ==
    pc = "done" =>
        \A k \in 1..Len(fundamental_data) :
            LET data == fundamental_data[k]
            IN  IF /\ data.revenue # None
                   /\ data.operating_income # None
                   /\ Val(data.revenue) # 0
                THEN /\ data.ebit_margin # None
                     /\ ToTwoDecimals(FDecimals(percent_float(data.ebit_margin), 2),
                                      Val(data.operating_income) * 100,
                                      Val(data.revenue))
                ELSE data.ebit_margin = None

----------------------------------------------------------------------------
(* Specification of a session whose runs may be stopped                    *)

\* The Analyze button with one of the session's texts.
press_in_session == press(SessionInputs, MaxSessionRuns)

SessionNext ==
    \/ press_in_session
    \/ announce_run
    \/ clear_database
    \/ collect_symbol
    \/ fetch_fundamental_data
    \/ fetch_daily_price_data
    \/ fetch_current_price
    \/ store_fundamentals
    \/ keep_collected
    \/ store_prices
    \/ analyze_symbol
    \/ rank_batch
    \/ complete_analysis
    \/ show_content
    \/ generate_recommendation
    \/ stop_run
    \/ rerun

SpecSession == RunInit /\ [][SessionNext]_vars

\* A script run reaches the content area of main: the run of the button
\* 'Generate AI Recommendation', or a run without a button or of the Analyze
\* button (after a press without a valid symbol or the return of
\* run_analysis) that was not ended before.
reaches_content ==
    \/ generate_recommendation
    \/ show_content

\* What display_analysis_results shows of a file: the ranking of the stored
\* results, its notice when none is stored, and the error of its query when
\* the file has no table of results.
ShownOf(tables) ==
    IF "analysis_results" \notin DOMAIN tables THEN "error"
    ELSE IF tables.analysis_results = <<>> THEN "no results"
    ELSE "results"

\* analysis_complete changes only from False to True, in the step that ends
\* run_analysis (lines 256-260) after the ranking phase, with a result of
\* every listed symbol and their ranks.
FlagSetOnce ==
    /\ session_state'.analysis_complete # session_state.analysis_complete =>
           /\ session_state'.analysis_complete
           /\ pc = "ranked"
           /\ pc' = "content"
           /\ Len(analysis_results) = Len(symbols)
           /\ \A k \in 1..Len(analysis_results) : "rank" \in DOMAIN analysis_results[k]
    /\ session_state.analysis_complete => session_state'.analysis_complete

\* C25 as stated: analysis_complete starts False, becomes True only at the
\* end of a run_analysis after its ranking phase, and is never reset; and
\* once it is True, every script run that reaches the content area of main
\* displays results, also after a later run has cleared the tables and
\* stopped before storing a result.
C25_FlagSetOnceResultsShownEver ==
    /\ session_state.analysis_complete = FALSE
    /\ [][/\ FlagSetOnce
           /\ (session_state.analysis_complete /\ reaches_content) =>
                  page'.shown = "results"]_vars

\* C25: analysis_complete starts False, becomes True only in the step that
\* ends run_analysis after its ranking phase, and is never reset; so from
\* the first completed run on, every script run that reaches the content
\* area of main calls display_analysis_results and never shows the
\* instructions: it shows the ranking of the results that the tables then
\* hold, the notice that there are none when the table is empty, as after a
\* later run that cleared the tables and stopped before storing a result,
\* and the error of the query when the table is missing.
C25_FlagSetOnceDisplayCalledEver ==
    /\ session_state.analysis_complete = FALSE
    /\ [][/\ FlagSetOnce
           /\ (session_state.analysis_complete /\ reaches_content) =>
                  /\ page'.shown = ShownOf(db')
                  /\ page'.shown = "results" =>
                         /\ Len(page'.table) = Len(db'.analysis_results)
                         /\ \A k \in 1..Len(page'.table) :
                                \E j \in 1..Len(db'.analysis_results) :
                                    page'.table[k].symbol
                                        = db'.analysis_results[j].symbol]_vars

\* A first run completed with a result; the second run cleared the tables,
\* collected its symbol and was stopped before storing a result; the page
\* drawn afterwards is the notice of display_analysis_results.
C25_Witness ==
    /\ pc = "idle"
    /\ now = 2
    /\ session_state.analysis_complete
    /\ session_state.analyzed_stocks # <<>>
    /\ TablesExist
    /\ db.stocks # <<>>
    /\ db.analysis_results = <<>>
    /\ page.shown = "no results"
====
